---- MODULE Spec2Model ----
(***************************************************************************)
(* A model of the merge-flavour rebase engine of src/src/rebase.c:         *)
(* git_rebase (init), git_rebase_next, git_rebase_commit, git_rebase_abort *)
(* and git_rebase_finish, together with the on-disk state directory        *)
(* .git/rebase-merge, the directory .git/rebase-apply another program may  *)
(* leave, the references, the index, the working directory and the object  *)
(* database they act on.                                                   *)
(***************************************************************************)
EXTENDS Integers, Sequences, FiniteSets, TLC

(***************************************************************************)
(* Bounds of the model.                                                    *)
(***************************************************************************)
\* commits that git_commit_create may add to the object database
MaxNewCommits == 3
\* events of one run besides the calls of the five functions: an edit of
\* the index or the working directory by the caller, a move of the branch
\* by another writer, another program creating .git/rebase-apply, a failing
\* system call or a kill of the process, and a call of git_rebase by a
\* process that has called it before
MaxEvents == 1

(***************************************************************************)
(* The repository the engine runs on: file contents, trees, commits.       *)
(***************************************************************************)
Paths == {"f", "g"}
\* what checkout writes into a conflicted file of the working directory
MarkerContent == "<<<<<<<"

Tree(cf, cg) == [f |-> cf, g |-> cg]
\* the tree without content: the base of a root commit's pick
EmptyTree == [x \in Paths |-> ""]

\* the commits that exist before any rebase; a commit's position is its OID
\* and its commit time.  1=A 2=B 3=X 4=Y 5=M 6=Z
\*    A <- B                       (refs/heads/master)
\*    A <- X <- Y <- M <- Z        (refs/heads/topic), M = merge of Y and B
\* X and B change f differently, Y and Z change g
OrigCommits ==
    << [parents |-> << >>,      tree |-> Tree("a", "a"), msg |-> "A"],
       [parents |-> << 1 >>,    tree |-> Tree("b", "a"), msg |-> "B"],
       [parents |-> << 1 >>,    tree |-> Tree("c", "a"), msg |-> "X"],
       [parents |-> << 3 >>,    tree |-> Tree("c", "b"), msg |-> "Y"],
       [parents |-> << 4, 2 >>, tree |-> Tree("c", "b"), msg |-> "M"],
       [parents |-> << 5 >>,    tree |-> Tree("c", "c"), msg |-> "Z"] >>

NOrig == Len(OrigCommits)
OidB == NOrig - 4
OidX == NOrig - 3
OidY == NOrig - 2
OidZ == NOrig
NoOid == NOrig - NOrig

MASTER == "refs/heads/master"
TOPIC == "refs/heads/topic"
NoRef == ""

\* git_commit_lookup: original commits and the ones commit has created
AllOids(db) == 1..(NOrig + Len(db))
CommitLookup(db, o) == IF o <= NOrig THEN OrigCommits[o] ELSE db[o - NOrig]
ParentCount(db, o) == Len(CommitLookup(db, o).parents)
CommitTree(db, o) == CommitLookup(db, o).tree

(***************************************************************************)
(* Text conversions: git_oid_fmt / git_oid_fromstr, "%d" / git__strtol32.  *)
(***************************************************************************)
HexTable == << "a1", "b2", "c3", "d4", "e5", "f6", "07", "18", "29", "3a",
               "4b", "5c", "6d", "7e" >>
DecTable == << "0", "1", "2", "3", "4", "5", "6", "7", "8" >>

\* the inverse of a table: the position of each of its texts
Inverse(table) ==
    [s \in {table[i] : i \in 1..Len(table)} |->
        CHOOSE i \in 1..Len(table) : table[i] = s]
HexIndex == Inverse(HexTable)
DecIndex == Inverse(DecTable)

OidFmt(o) == HexTable[o]
IsHex(s) == s \in DOMAIN HexIndex
OidFromStr(s) == HexIndex[s]
IntFmt(n) == DecTable[n + 1]
IsDec(s) == s \in DOMAIN DecIndex
Strtol(s) == DecIndex[s] - 1

\* A file is a sequence of lines, a line a sequence of space-separated words.
\* rebase_setupfile with "%s\n" writes one line of one word.
OneLine(word) == << << word >> >>
\* git_futils_readbuffer + git_buf_rtrim of a one-line file
Trimmed(content) == IF Len(content) >= 1 /\ Len(content[1]) >= 1
                    THEN content[1][1] ELSE ""

CmtFile(n) == "cmt." \o IntFmt(n)
ORIG_DETACHED_HEAD == "detached HEAD"


(***************************************************************************)
(* State.                                                                  *)
(***************************************************************************)
VARIABLES
    mergeDir,   \* whether the directory <repo>/rebase-merge exists
    files,      \* the files of the state directory: name -> content
    applyDir,   \* whether the directory <repo>/rebase-apply exists
    applyFiles, \* the files of rebase-apply: name -> content
    head,       \* HEAD: symbolic to a branch, or direct to a commit
    refs,       \* the branch references: name -> OID
    index,      \* the repository index: entries and conflicted paths
    workdir,    \* the working directory: path -> content
    odb,        \* the commits created by git_commit_create, in order
    origHead,   \* the repository's ORIG_HEAD marker
    notes,      \* the notes under the rewrite notes ref: OID -> message
    proc,       \* per process: position inside git_rebase, locals, last return
    edits,      \* number of steps the environment has made so far
    inits,      \* per process: number of git_rebase calls so far
    hist,       \* history of the rebase the state directory belongs to
    faults      \* number of failing system calls and kills so far

vars == << mergeDir, files, applyDir, applyFiles, head, refs, index, workdir,
           odb, origHead, notes, proc, edits, inits, hist, faults >>

MainProc == 1
OtherProc == 2
Procs == {MainProc, OtherProc}

GIT_OK == "GIT_OK"
GIT_ERROR == "GIT_ERROR"
GIT_ENOTFOUND == "GIT_ENOTFOUND"
GIT_EEXISTS == "GIT_EEXISTS"
GIT_EMODIFIED == "GIT_EMODIFIED"
GIT_EMERGECONFLICT == "GIT_EMERGECONFLICT"
GIT_EAPPLIED == "GIT_EAPPLIED"
GIT_ITEROVER == "GIT_ITEROVER"

NoFiles == [n \in {} |-> << >>]
NoHead == [oid |-> NoOid, ref |-> NoRef]
Given(desc) == desc.oid # NoOid

\* history: whether git_rebase returned success for this state directory,
\* whether a git_rebase_commit has answered GIT_EAPPLIED since, and the
\* number of the pick for which one last answered GIT_EMERGECONFLICT
NoHist == [initOk |-> FALSE, applied |-> FALSE, conflict |-> 0]

NoReturn == [op |-> "none", code |-> GIT_OK, msg |-> ""]

SymbolicHead(name) == [sym |-> TRUE, name |-> name, oid |-> NoOid]
DirectHead(o) == [sym |-> FALSE, name |-> NoRef, oid |-> o]
CleanIndex(t) == [entries |-> t, conflicts |-> {}]

\* git_rebase_state after GIT_REBASE_STATE_INIT, with the return code of
\* rebase_state and the message giterr_last holds after it
NoState == [error |-> GIT_OK, head_detached |-> FALSE, orig_head_name |-> NoRef,
            orig_head_id |-> NoOid, onto_id |-> NoOid, msgnum |-> 0,
            end_ |-> 0, onto_name |-> "", current |-> NoOid, msg |-> ""]

\* HEAD, the branches and the notes as they were when a call of
\* git_rebase_next, git_rebase_commit, git_rebase_abort or git_rebase_finish
\* began, and the number of steps the environment had made by then
NoEntry == [head |-> DirectHead(NoOid), refs |-> [n \in {} |-> NoOid],
            notes |-> [o \in {} |-> ""], edits |-> 0]

\* rewrite_notes_ref: the option git_rebase_finish is, or was last, called with
\* head_tree, index: what rebase_ensure_not_dirty has read so far
\* state: the git_rebase_state of the git_rebase_commit, git_rebase_abort or
\*   git_rebase_finish in progress
\* terminal: the commit git_rebase_finish has resolved HEAD to
\* commit_id: the commit git_rebase_commit has created
\* entry: the repository when the call in progress began
Idle == [pc |-> "idle", branch |-> NoHead, upstream |-> NoHead,
         onto |-> NoHead, walk |-> << >>, cnt |-> 0, ret |-> NoReturn,
         rewrite_notes_ref |-> NoRef,
         head_tree |-> EmptyTree, index |-> [entries |-> EmptyTree, conflicts |-> {}],
         state |-> NoState, terminal |-> NoOid, commit_id |-> NoOid,
         entry |-> NoEntry, prev |-> NoReturn]

\* git_repository_head + git_reference_peel
\* git_reference_name_to_id("HEAD")
ResolveHead(hd, rf) == IF hd.sym THEN rf[hd.name] ELSE hd.oid
HeadOid == ResolveHead(head, refs)
HeadTree == CommitTree(odb, HeadOid)

Init ==
    /\ mergeDir = FALSE
    /\ files = NoFiles
    /\ applyDir = FALSE
    /\ applyFiles = NoFiles
    /\ refs = [n \in {MASTER, TOPIC} |-> IF n = MASTER THEN OidB ELSE OidZ]
    /\ head = SymbolicHead(TOPIC)
    /\ index = CleanIndex(CommitTree(<< >>, OidZ))
    /\ workdir = CommitTree(<< >>, OidZ)
    /\ odb = << >>
    /\ origHead = NoOid
    /\ notes = [o \in {OidX} |-> "note on X"]
    /\ proc = [p \in Procs |-> Idle]
    /\ edits = 0
    /\ inits = [p \in Procs |-> 0]
    /\ hist = NoHist
    /\ faults = 0

(***************************************************************************)
(* Loading the state: rebase_state_type, rebase_state, rebase_state_merge. *)
(***************************************************************************)
Exists(name) == name \in DOMAIN files

\* rebase_state_type: rebase-apply is probed first, then rebase-merge
RebaseStateType == IF applyDir THEN "APPLY"
                   ELSE IF mergeDir THEN "MERGE" ELSE "NONE"
\* the files under the state path rebase_state_type hands out
StateFiles == IF RebaseStateType = "APPLY" THEN applyFiles ELSE files

\* rebase_state fails with the code and the message of the step that failed.
\* rebase.c sets a message of its own in three places only; where a callee
\* fails, giterr_last holds that callee's message, which msg names by the
\* callee: git_futils_readbuffer, git__strtol32, git_oid_fromstr,
\* git_commit_lookup
LoadError(code, msg) == [NoState EXCEPT !.error = code, !.msg = msg]
\* rebase_state, no state directory (lines 206-209)
NoRebaseInProgress == LoadError(GIT_ENOTFOUND, "There is no rebase in progress")
\* rebase_state, case GIT_REBASE_TYPE_APPLY
ApplyNotSupported ==
    [NoState EXCEPT !.error = GIT_ERROR,
                    !.msg = "Patch application rebase is not supported"]

\* a loader for which 'end' and 'onto_name' are optional as well
RebaseStateMergeLenient(st) ==
    [st EXCEPT
        !.end_ = IF Exists("end") /\ IsDec(Trimmed(files["end"]))
                 THEN Strtol(Trimmed(files["end"])) ELSE 0,
        !.onto_name = IF Exists("onto_name")
                      THEN Trimmed(files["onto_name"]) ELSE "",
        !.msgnum = IF Exists("msgnum") /\ IsDec(Trimmed(files["msgnum"]))
                   THEN Strtol(Trimmed(files["msgnum"])) ELSE 0,
        !.current = IF Exists("current") /\ IsHex(Trimmed(files["current"]))
                    THEN OidFromStr(Trimmed(files["current"])) ELSE NoOid]

\* 'end' and 'onto_name' are mandatory, 'msgnum' and 'current' optional
RebaseStateMerge(st) ==
    IF ~Exists("end") THEN LoadError(GIT_ENOTFOUND, "readbuffer")
    ELSE IF ~IsDec(Trimmed(files["end"])) THEN LoadError(GIT_ERROR, "strtol32")
    ELSE IF ~Exists("onto_name") THEN LoadError(GIT_ENOTFOUND, "readbuffer")
    ELSE IF Exists("msgnum") /\ ~IsDec(Trimmed(files["msgnum"]))
         THEN LoadError(GIT_ERROR, "strtol32")
    ELSE IF Exists("current") /\ ~IsHex(Trimmed(files["current"]))
         THEN LoadError(GIT_ERROR, "oid_fromstr")
    ELSE IF Exists("current")
            /\ OidFromStr(Trimmed(files["current"])) \notin AllOids(odb)
         THEN LoadError(GIT_ENOTFOUND, "commit_lookup")
    ELSE [st EXCEPT
            !.end_ = Strtol(Trimmed(files["end"])),
            !.onto_name = Trimmed(files["onto_name"]),
            !.msgnum = IF Exists("msgnum")
                       THEN Strtol(Trimmed(files["msgnum"])) ELSE 0,
            !.current = IF Exists("current")
                        THEN OidFromStr(Trimmed(files["current"])) ELSE NoOid]

RebaseState ==
    IF RebaseStateType = "NONE" THEN NoRebaseInProgress
    ELSE IF "head-name" \notin DOMAIN StateFiles
         THEN LoadError(GIT_ENOTFOUND, "readbuffer")
    ELSE LET sf == StateFiles
             name == Trimmed(sf["head-name"])
             detached == (name = ORIG_DETACHED_HEAD)
             \* git.git once wrote 'head' instead of 'orig-head'
             ohfile == IF "orig-head" \in DOMAIN sf THEN "orig-head" ELSE "head"
         IN  IF ohfile \notin DOMAIN sf THEN LoadError(GIT_ENOTFOUND, "readbuffer")
             ELSE IF ~IsHex(Trimmed(sf[ohfile]))
                  THEN LoadError(GIT_ERROR, "oid_fromstr")
             ELSE IF "onto" \notin DOMAIN sf
                  THEN LoadError(GIT_ENOTFOUND, "readbuffer")
             ELSE IF ~IsHex(Trimmed(sf["onto"]))
                  THEN LoadError(GIT_ERROR, "oid_fromstr")
             ELSE IF RebaseStateType = "APPLY" THEN ApplyNotSupported
             ELSE RebaseStateMerge(
                    [NoState EXCEPT
                       !.head_detached = detached,
                       !.orig_head_name = IF detached THEN NoRef ELSE name,
                       !.orig_head_id = OidFromStr(Trimmed(sf[ohfile])),
                       !.onto_id = OidFromStr(Trimmed(sf["onto"]))])

(***************************************************************************)
(* Helpers of the initiator.                                               *)
(***************************************************************************)
\* rebase_onto_name: the branch name without "refs/heads/", else the whole
\* reference name, else the hex OID
RebaseOntoName(onto) ==
    IF onto.ref = MASTER THEN "master"
    ELSE IF onto.ref = TOPIC THEN "topic"
    ELSE IF onto.ref # NoRef THEN onto.ref
    ELSE OidFmt(onto.oid)

Range(seq) == { seq[i] : i \in 1..Len(seq) }

\* the commits reachable from the commits of S
RECURSIVE Ancestors(_, _)
Ancestors(db, S) ==
    LET more == S \cup UNION { Range(CommitLookup(db, c).parents) : c \in S }
    IN  IF more = S THEN S ELSE Ancestors(db, more)

RECURSIVE OldestFirst(_)
OldestFirst(S) ==
    IF S = {} THEN << >>
    ELSE LET m == CHOOSE x \in S : \A y \in S : x <= y
         IN  << m >> \o OldestFirst(S \ {m})

\* git_revwalk_push(branch), git_revwalk_hide(upstream), sorting
\* GIT_SORT_REVERSE | GIT_SORT_TIME: oldest commit first
Revwalk(db, push, hide) ==
    OldestFirst(Ancestors(db, {push}) \ Ancestors(db, {hide}))

\* rebase_setupfile with flags -1: create or truncate, then write; it fails
\* when the state directory is not there
SetupFile(name, content) ==
    [n \in DOMAIN files \cup {name} |-> IF n = name THEN content ELSE files[n]]

\* rebase_setupfile with O_CREAT|O_WRONLY|O_APPEND
AppendFile(name, lines) ==
    [n \in DOMAIN files \cup {name} |->
        IF n = name
        THEN (IF name \in DOMAIN files THEN files[name] ELSE << >>) \o lines
        ELSE files[n]]

\* the events so far, and whether one more may happen
Repeated(p) == IF inits[p] > 0 THEN inits[p] - 1 ELSE 0
Events == edits + faults + Repeated(MainProc) + Repeated(OtherProc)
Budget == Events < MaxEvents

\* an injected fault is counted; a failure the state explains is not
Fault(injected) ==
    IF injected THEN Budget /\ faults' = faults + 1
    ELSE UNCHANGED faults

Return(p, op, code, msg) ==
    proc' = [proc EXCEPT ![p] =
                [Idle EXCEPT !.ret = [op |-> op, code |-> code, msg |-> msg]]]
Goto(p, pc) == proc' = [proc EXCEPT ![p].pc = pc]

\* rebase_cleanup: git_futils_rmdir_r on the state path removes the
\* directory and everything in it
RemoveStateDir == mergeDir' = FALSE /\ files' = NoFiles /\ hist' = NoHist

\* what git_repository__cleanup_files does with the absolute state path it
\* is given: the directory is removed, or the name is joined onto the
\* repository path, names nothing, and the directory is kept
CleanupFilesOutcomes == {"removed", "kept"}

\* rebase_setup, done: after an error
SetupCleanup(outcome) ==
    IF outcome = "removed" THEN RemoveStateDir
    ELSE UNCHANGED << mergeDir, files, hist >>

\* the descriptor a caller gets for a branch (git_merge_head_from_ref) or
\* for a bare OID (git_merge_head_from_id)
FromRef(name) == [oid |-> refs[name], ref |-> name]
FromId(o) == [oid |-> o, ref |-> NoRef]

\* the calls of git_rebase the model makes: << branch, upstream, onto >>
InitInputs == { << FromRef(TOPIC), FromRef(MASTER), NoHead >>,
                << FromRef(TOPIC), NoHead, FromRef(MASTER) >>,
                << FromRef(TOPIC), FromId(OidX), FromRef(MASTER) >>,
                << FromId(OidY), FromRef(MASTER), NoHead >> }

\* git_rebase, lines 569-570 and rebase_setup_merge, lines 356-357
OntoOf(l) == IF Given(l.onto) THEN l.onto ELSE l.upstream
UpstreamOf(l) == IF Given(l.upstream) THEN l.upstream ELSE OntoOf(l)

(***************************************************************************)
(* git_rebase (init), one action per step that reads or writes shared      *)
(* state, so that two processes can interleave and a process can be        *)
(* interrupted between two writes.  ok = FALSE is a failing system call.   *)
(***************************************************************************)
\* rebase_ensure_not_in_progress
InitCall(p, branch, upstream, onto) ==
    /\ proc[p].pc = "idle"
    /\ Given(upstream) \/ Given(onto)
    /\ inits[p] = 0 \/ Budget
    /\ inits' = [inits EXCEPT ![p] = @ + 1]
    /\ IF RebaseStateType # "NONE"
       THEN Return(p, "init", GIT_ERROR, "There is an existing rebase in progress")
       ELSE proc' = [proc EXCEPT ![p] =
                       [Idle EXCEPT !.pc = "head_tree", !.branch = branch,
                                    !.upstream = upstream, !.onto = onto]]
    /\ UNCHANGED << mergeDir, files, head, refs, index, workdir, odb, origHead, applyDir, applyFiles,
                    notes, edits, hist, faults >>

\* rebase_ensure_not_dirty: git_repository_head_tree (line 515)
InitHeadTree(p) ==
    /\ proc[p].pc = "head_tree"
    /\ proc' = [proc EXCEPT ![p].pc = "diff_index", ![p].head_tree = HeadTree]
    /\ UNCHANGED << mergeDir, files, head, refs, index, workdir, odb, origHead, applyDir, applyFiles,
                    notes, edits, inits, hist, faults >>

\* rebase_ensure_not_dirty: the index is read and compared with the tree
\* that was read from HEAD (lines 516-526)
InitDiffTreeToIndex(p) ==
    /\ proc[p].pc = "diff_index"
    /\ IF index.entries # proc[p].head_tree \/ index.conflicts # {}
       THEN Return(p, "init", GIT_ERROR, "Uncommitted changes exist in index")
       ELSE proc' = [proc EXCEPT ![p].pc = "diff_workdir", ![p].index = index]
    /\ UNCHANGED << mergeDir, files, head, refs, index, workdir, odb, origHead, applyDir, applyFiles,
                    notes, edits, inits, hist, faults >>

\* a comparison with the working directory that finds no change
InitDiffIndexToWorkdirNever(p) ==
    /\ proc[p].pc = "diff_workdir"
    /\ Goto(p, "mkdir")
    /\ UNCHANGED << mergeDir, files, head, refs, index, workdir, odb, origHead, applyDir, applyFiles,
                    notes, edits, inits, hist, faults >>

\* rebase_ensure_not_dirty: the index that was read is compared with the
\* working directory (lines 529-534)
InitDiffIndexToWorkdir(p) ==
    /\ proc[p].pc = "diff_workdir"
    /\ IF workdir # proc[p].index.entries
       THEN Return(p, "init", GIT_ERROR, "Unstaged changes exist in workdir")
       ELSE Goto(p, "mkdir")
    /\ UNCHANGED << mergeDir, files, head, refs, index, workdir, odb, origHead, applyDir, applyFiles,
                    notes, edits, inits, hist, faults >>

\* a p_mkdir that succeeds on a directory that is already there
InitMkdirExisting(p, ok) ==
    /\ Fault(~ok)
    /\ proc[p].pc = "mkdir"
    /\ IF ok
       THEN /\ mergeDir' = TRUE /\ hist' = NoHist
            /\ files' = IF mergeDir THEN files ELSE NoFiles
            /\ Goto(p, "set_orig_head")
       ELSE /\ \E o \in CleanupFilesOutcomes : SetupCleanup(o)
            /\ Return(p, "init", GIT_ERROR, "Failed to create rebase directory")
    /\ UNCHANGED << head, refs, index, workdir, odb, origHead, applyDir, applyFiles, notes,
                    edits, inits >>

\* rebase_setup: p_mkdir; on failure the done: label cleans up
InitMkdir(p, ok) ==
    /\ Fault(~ok)
    /\ proc[p].pc = "mkdir"
    /\ IF ok /\ ~mergeDir
       THEN /\ mergeDir' = TRUE /\ files' = NoFiles /\ hist' = NoHist
            /\ Goto(p, "set_orig_head")
       ELSE /\ \E o \in CleanupFilesOutcomes : SetupCleanup(o)
            /\ Return(p, "init", GIT_ERROR, "Failed to create rebase directory")
    /\ UNCHANGED << head, refs, index, workdir, odb, origHead, applyDir, applyFiles, notes,
                    edits, inits >>

\* rebase_setup: git_repository__set_orig_head
InitSetOrigHead(p, ok) ==
    /\ Fault(~ok)
    /\ proc[p].pc = "set_orig_head"
    /\ IF ok
       THEN /\ origHead' = proc[p].branch.oid
            /\ Goto(p, "head-name")
            /\ UNCHANGED << mergeDir, hist, files >>
       ELSE /\ \E o \in CleanupFilesOutcomes : SetupCleanup(o)
            /\ Return(p, "init", GIT_ERROR, "set_orig_head")
            /\ UNCHANGED origHead
    /\ UNCHANGED << applyDir, applyFiles, head, refs, index, workdir, odb, notes,
                    edits, inits >>

\* rebase_setup: the files head-name, onto, orig-head, quiet, in this order
InitSetupFile(p, ok) ==
    LET l == proc[p]
        name == l.pc
        content ==
            IF name = "head-name"
            THEN OneLine(IF l.branch.ref # NoRef THEN l.branch.ref
                         ELSE ORIG_DETACHED_HEAD)
            ELSE IF name = "onto" THEN OneLine(OidFmt(OntoOf(l).oid))
            ELSE IF name = "orig-head" THEN OneLine(OidFmt(l.branch.oid))
            ELSE << << >> >>
        next == IF name = "head-name" THEN "onto"
                ELSE IF name = "onto" THEN "orig-head"
                ELSE IF name = "orig-head" THEN "quiet" ELSE "walk"
    IN  /\ Fault(~ok)
        /\ name \in {"head-name", "onto", "orig-head", "quiet"}
        /\ IF ok /\ mergeDir
           THEN /\ files' = SetupFile(name, content)
                /\ proc' = [proc EXCEPT ![p].pc = next,
                              ![p].walk =
                                 IF next = "walk"
                                 THEN Revwalk(odb, l.branch.oid, UpstreamOf(l).oid)
                                 ELSE l.walk]
                /\ UNCHANGED << mergeDir, hist >>
           ELSE /\ \E o \in CleanupFilesOutcomes : SetupCleanup(o)
                /\ Return(p, "init", GIT_ERROR, "setupfile")
        /\ UNCHANGED << head, refs, index, workdir, odb, origHead, applyDir, applyFiles, notes,
                    edits, inits >>

\* a revwalk loop that writes a cmt file for a merge commit as well
InitWalkStepUnfiltered(p, ok) ==
    LET l == proc[p]
        id == Head(l.walk)
    IN  /\ Fault(~ok)
        /\ l.pc = "walk"
        /\ l.walk # << >>
        /\ IF ok /\ mergeDir
           THEN /\ files' = SetupFile(CmtFile(l.cnt + 1), OneLine(OidFmt(id)))
                /\ proc' = [proc EXCEPT ![p].walk = Tail(l.walk),
                                        ![p].cnt = l.cnt + 1]
                /\ UNCHANGED << mergeDir, hist >>
           ELSE /\ \E o \in CleanupFilesOutcomes : SetupCleanup(o)
                /\ Return(p, "init", GIT_ERROR, "setupfile")
        /\ UNCHANGED << head, refs, index, workdir, odb, origHead, applyDir, applyFiles, notes,
                    edits, inits >>

\* rebase_setup_merge: one turn of the revwalk loop
InitWalkStep(p, ok) ==
    LET l == proc[p]
        id == Head(l.walk)
    IN  /\ Fault(~ok)
        /\ l.pc = "walk"
        /\ l.walk # << >>
        /\ IF ParentCount(odb, id) > 1
           THEN /\ ok
                /\ proc' = [proc EXCEPT ![p].walk = Tail(l.walk)]
                /\ UNCHANGED << mergeDir, hist, files >>
           ELSE IF ok /\ mergeDir
           THEN /\ files' = SetupFile(CmtFile(l.cnt + 1), OneLine(OidFmt(id)))
                /\ proc' = [proc EXCEPT ![p].walk = Tail(l.walk),
                                        ![p].cnt = l.cnt + 1]
                /\ UNCHANGED << mergeDir, hist >>
           ELSE /\ \E o \in CleanupFilesOutcomes : SetupCleanup(o)
                /\ Return(p, "init", GIT_ERROR, "setupfile")
        /\ UNCHANGED << head, refs, index, workdir, odb, origHead, applyDir, applyFiles, notes,
                    edits, inits >>

\* rebase_setup_merge: GIT_ITEROVER ends the loop, then 'end' is written
InitWriteEnd(p, ok) ==
    LET l == proc[p]
    IN  /\ Fault(~ok)
        /\ l.pc = "walk"
        /\ l.walk = << >>
        /\ IF ok /\ mergeDir
           THEN /\ files' = SetupFile("end", OneLine(IntFmt(l.cnt)))
                /\ Goto(p, "onto_name")
                /\ UNCHANGED << mergeDir, hist >>
           ELSE /\ \E o \in CleanupFilesOutcomes : SetupCleanup(o)
                /\ Return(p, "init", GIT_ERROR, "setupfile")
        /\ UNCHANGED << head, refs, index, workdir, odb, origHead, applyDir, applyFiles, notes,
                    edits, inits >>

\* rebase_setup_merge: 'onto_name'
InitWriteOntoName(p, ok) ==
    LET l == proc[p]
    IN  /\ Fault(~ok)
        /\ l.pc = "onto_name"
        /\ IF ok /\ mergeDir
           THEN /\ files' = SetupFile("onto_name",
                                      OneLine(RebaseOntoName(OntoOf(l))))
                /\ Goto(p, "head_create")
                /\ UNCHANGED << mergeDir, hist >>
           ELSE /\ \E o \in CleanupFilesOutcomes : SetupCleanup(o)
                /\ Return(p, "init", GIT_ERROR, "setupfile")
        /\ UNCHANGED << head, refs, index, workdir, odb, origHead, applyDir, applyFiles, notes,
                    edits, inits >>

\* git_rebase: HEAD becomes a direct reference to onto; an error goes to
\* done:, which does not remove the state directory
InitHeadCreate(p, ok) ==
    /\ Fault(~ok)
    /\ proc[p].pc = "head_create"
    /\ IF ok
       THEN head' = DirectHead(OntoOf(proc[p]).oid) /\ Goto(p, "checkout")
       ELSE Return(p, "init", GIT_ERROR, "reference_create") /\ UNCHANGED head
    /\ UNCHANGED << mergeDir, files, refs, index, workdir, odb, origHead, applyDir, applyFiles, notes,
                    edits, inits, hist >>

\* git_rebase: git_checkout_head with GIT_CHECKOUT_FORCE, then return
InitCheckout(p, ok) ==
    /\ Fault(~ok)
    /\ proc[p].pc = "checkout"
    /\ IF ok
       THEN /\ index' = CleanIndex(HeadTree)
            /\ workdir' = HeadTree
            /\ hist' = [hist EXCEPT !.initOk = mergeDir]
            /\ Return(p, "init", GIT_OK, "")
       ELSE /\ Return(p, "init", GIT_ERROR, "checkout")
            /\ UNCHANGED << index, workdir, hist >>
    /\ UNCHANGED << mergeDir, files, head, refs, odb, origHead, applyDir, applyFiles, notes,
                    edits, inits >>

\* the positions of a process inside git_rebase
InitPositions == {"head_tree", "diff_index", "diff_workdir", "mkdir",
                  "set_orig_head", "head-name", "onto", "orig-head", "quiet",
                  "walk", "onto_name", "head_create", "checkout"}

\* the process is killed inside git_rebase: nothing is cleaned up
Interrupt(p) ==
    /\ proc[p].pc \in InitPositions
    /\ Fault(TRUE)
    /\ Return(p, "init", "KILLED", "")
    /\ UNCHANGED << mergeDir, files, head, refs, index, workdir, odb, origHead, applyDir, applyFiles, notes,
                    edits, inits, hist >>

InitStep(p) ==
    \/ \E in \in InitInputs : InitCall(p, in[1], in[2], in[3])
    \/ InitHeadTree(p)
    \/ InitDiffTreeToIndex(p)
    \/ InitDiffIndexToWorkdir(p)
    \/ \E ok \in BOOLEAN : InitMkdir(p, ok)
    \/ \E ok \in BOOLEAN : InitSetOrigHead(p, ok)
    \/ \E ok \in BOOLEAN : InitSetupFile(p, ok)
    \/ \E ok \in BOOLEAN : InitWalkStep(p, ok)
    \/ \E ok \in BOOLEAN : InitWriteEnd(p, ok)
    \/ \E ok \in BOOLEAN : InitWriteOntoName(p, ok)
    \/ \E ok \in BOOLEAN : InitHeadCreate(p, ok)
    \/ \E ok \in BOOLEAN : InitCheckout(p, ok)

\* the repository as a call of next, commit, abort or finish finds it
Entry == [head |-> head, refs |-> refs, notes |-> notes, edits |-> edits]

(***************************************************************************)
(* git_rebase_next.                                                        *)
(***************************************************************************)
\* git_merge_trees: three-way merge, path by path
MergeTrees(base, ours, theirs) ==
    LET clash == { x \in Paths : /\ theirs[x] # base[x]
                                 /\ ours[x] # base[x]
                                 /\ ours[x] # theirs[x] }
    IN  [entries |-> [x \in Paths |-> IF theirs[x] = base[x] THEN ours[x]
                                      ELSE IF x \in clash THEN ours[x]
                                      ELSE theirs[x]],
         conflicts |-> clash]

\* the paths on which the merge result differs from HEAD
Affected(merged) ==
    { x \in Paths : merged.entries[x] # HeadTree[x] \/ x \in merged.conflicts }

\* git_merge__check_result: a path the merge touches must not carry a
\* staged or unstaged change
CheckResultOk(merged) ==
    \A x \in Affected(merged) :
        /\ index.entries[x] = HeadTree[x]
        /\ x \notin index.conflicts
        /\ workdir[x] = index.entries[x]

\* git_checkout_index with the safe strategy: the touched paths are written
\* to the working directory and to the repository index
CheckoutIndex(merged) ==
    /\ index' = [entries |-> [x \in Paths |->
                                IF x \in Affected(merged) THEN merged.entries[x]
                                ELSE index.entries[x]],
                 conflicts |-> (index.conflicts \ Affected(merged))
                                  \cup merged.conflicts]
    /\ workdir' = [x \in Paths |->
                     IF x \in merged.conflicts THEN MarkerContent
                     ELSE IF x \in Affected(merged) THEN merged.entries[x]
                     ELSE workdir[x]]

\* git_checkout_index compares the working directory with the tree of HEAD,
\* its baseline, which it reads itself: the safe strategy refuses, and writes
\* nothing, when a path it would write carries a change against the
\* baseline.  It refuses in every build when the change is not what it would
\* write or the path is conflicted, and in some builds also when the working
\* directory already holds what it would write.
CheckoutMayRefuse(merged) ==
    { x \in Affected(merged) : workdir[x] # HeadTree[x] }
CheckoutMustRefuse(merged) ==
    { x \in CheckoutMayRefuse(merged) :
         x \in merged.conflicts \/ workdir[x] # merged.entries[x] }

NextStops == {"none", "fail_msgnum", "kill_after_msgnum", "fail_current",
              "kill_after_current", "fail_checkout"}
CheckoutStops == {"none", "fail_checkout"}

\* a step counter written over the file 'end'
MSGNUM_FILE_IsEnd == "end"

\* the file git_rebase_next writes its step counter to (line 671)
MSGNUM_FILE == "msgnum"

\* a first write that is the one of 'current'
NextFirstWriteCurrent(n, word) == SetupFile("current", OneLine(word))

\* the state directory after the first write of rebase_next_merge (line 671)
NextFirstWrite(n, word) == SetupFile(MSGNUM_FILE, OneLine(IntFmt(n)))

\* rebase_next_merge: git_merge__check_result on the merged index (line 677)
NextCheckResultFailed(p) ==
    /\ Return(p, "next", GIT_EMERGECONFLICT,
              "uncommitted changes would be overwritten by merge")
    /\ UNCHANGED << index, workdir >>

\* rebase_next_merge: git_checkout_index of the merged index (line 678), and
\* the return
NextCheckoutIndex(p, merged, refuse) ==
    IF refuse
    THEN /\ CheckoutMayRefuse(merged) # {}
         /\ Return(p, "next", GIT_EMERGECONFLICT, "conflicts prevent checkout")
         /\ UNCHANGED << index, workdir >>
    ELSE /\ CheckoutMustRefuse(merged) = {}
         /\ CheckoutIndex(merged)
         /\ Return(p, "next", GIT_OK, "")

\* rebase_next_merge from the first file write on (lines 671-679).  The tree
\* of HEAD is read three times: for the merge (line 658), by
\* git_merge__check_result and by git_checkout_index.  While HEAD is a direct
\* reference no write of a branch changes what they read, and the writes,
\* the merge, the check and the checkout are one step.  While HEAD is
\* symbolic the check and the checkout are steps of their own, which read
\* the branch as it is by then.
NextMergeWrites(p, st, n, word, stop) ==
    LET pick == OidFromStr(word)
        base == IF ParentCount(odb, pick) = 0 THEN EmptyTree
                ELSE CommitTree(odb, CommitLookup(odb, pick).parents[1])
        merged == MergeTrees(base, HeadTree, CommitTree(odb, pick))
        files1 == NextFirstWrite(n, word)
        files2 == [m \in DOMAIN files1 \cup {"current"} |->
                     IF m = "current" THEN OneLine(word) ELSE files1[m]]
    IN  IF stop = "fail_msgnum"
        THEN /\ Return(p, "next", GIT_ERROR, "setupfile")
             /\ UNCHANGED << files, index, workdir >>
        ELSE IF stop \in {"kill_after_msgnum", "fail_current"}
        THEN /\ files' = files1
             /\ Return(p, "next",
                       IF stop = "fail_current" THEN GIT_ERROR ELSE "KILLED",
                       "setupfile")
             /\ UNCHANGED << index, workdir >>
        ELSE IF stop \in {"kill_after_current", "fail_checkout"}
        THEN /\ files' = files2
             /\ Return(p, "next",
                       IF stop = "fail_checkout" THEN GIT_ERROR ELSE "KILLED",
                       "checkout")
             /\ UNCHANGED << index, workdir >>
        ELSE IF head.sym
        THEN /\ files' = files2
             /\ proc' = [proc EXCEPT ![p] =
                           [Idle EXCEPT !.pc = "next_check", !.state = st,
                                        !.index = merged, !.entry = Entry,
                                        !.prev = proc[p].ret]]
             /\ UNCHANGED << index, workdir >>
        ELSE IF ~CheckResultOk(merged)
        THEN /\ files' = files2
             /\ NextCheckResultFailed(p)
        ELSE /\ files' = files2
             /\ NextCheckoutIndex(p, merged, FALSE)

\* a plan that never counts as exhausted
ExhaustedNever(st) == FALSE

\* rebase_next_merge: no pick is left (line 640)
Exhausted(st) == st.msgnum = st.end_

\* rebase_next_merge up to the first file write (lines 640-669)
RebaseNextMerge(p, st, stop) ==
    LET n == st.msgnum + 1
        word == Trimmed(files[CmtFile(n)])
    IN  IF Exhausted(st)
        THEN /\ Return(p, "next", GIT_ITEROVER, "")
             /\ stop = "none"
             /\ UNCHANGED << files, index, workdir >>
        ELSE IF ~Exists(CmtFile(n))
        THEN /\ Return(p, "next", GIT_ENOTFOUND, "readbuffer")
             /\ stop = "none"
             /\ UNCHANGED << files, index, workdir >>
        ELSE IF ~IsHex(word)
        THEN /\ Return(p, "next", GIT_ERROR, "oid_fromstr")
             /\ stop = "none"
             /\ UNCHANGED << files, index, workdir >>
        ELSE IF OidFromStr(word) \notin AllOids(odb)
        THEN /\ Return(p, "next", GIT_ENOTFOUND, "commit_lookup")
             /\ stop = "none"
             /\ UNCHANGED << files, index, workdir >>
        ELSE IF ParentCount(odb, OidFromStr(word)) > 1
        THEN /\ Return(p, "next", GIT_ERROR, "Cannot rebase a merge commit")
             /\ stop = "none"
             /\ UNCHANGED << files, index, workdir >>
        ELSE NextMergeWrites(p, st, n, word, stop)

\* the error git_rebase_next returns when rebase_state fails (line 703)
NextLoadError(error) == GIT_ERROR

\* git_rebase_next from its call (lines 703, 640-676, and 677-678 in the
\* same step while HEAD is a direct reference)
NextCall(p, stop) ==
    /\ proc[p].pc = "idle"
    /\ \E st \in {RebaseState} :
         IF st.error # GIT_OK
         THEN /\ Return(p, "next", NextLoadError(st.error), st.msg)
              /\ stop = "none"
              /\ UNCHANGED << files, index, workdir >>
         ELSE RebaseNextMerge(p, st, stop)
    /\ Fault(stop # "none")
    /\ UNCHANGED << mergeDir, head, refs, odb, origHead, applyDir, applyFiles, notes,
                    edits, inits, hist >>

\* git_merge__check_result of a git_rebase_next that read HEAD through a
\* branch (line 677): the merged index is checked against the tree of HEAD
\* as it is by now
NextCheckResult(p, stop) ==
    /\ proc[p].pc = "next_check"
    /\ stop = "none"
    /\ IF CheckResultOk(proc[p].index)
       THEN Goto(p, "next_checkout") /\ UNCHANGED << index, workdir >>
       ELSE NextCheckResultFailed(p)
    /\ UNCHANGED << mergeDir, files, head, refs, odb, origHead, applyDir, applyFiles, notes,
                    edits, inits, hist, faults >>

\* git_checkout_index of such a git_rebase_next (line 678)
NextCheckout(p, stop) ==
    /\ proc[p].pc = "next_checkout"
    /\ stop \in CheckoutStops
    /\ IF stop = "fail_checkout"
       THEN /\ Return(p, "next", GIT_ERROR, "checkout")
            /\ UNCHANGED << index, workdir >>
       ELSE \E refuse \in BOOLEAN :
               NextCheckoutIndex(p, proc[p].index, refuse)
    /\ Fault(stop # "none")
    /\ UNCHANGED << mergeDir, files, head, refs, odb, origHead, applyDir, applyFiles, notes,
                    edits, inits, hist >>

\* git_rebase_next: another writer can act between its read of the branch
\* for the merge and the check of the result, and between the check and the
\* checkout
RebaseNext(p, stop) ==
    \/ NextCall(p, stop)
    \/ NextCheckResult(p, stop)
    \/ NextCheckout(p, stop)

(***************************************************************************)
(* git_rebase_commit.                                                      *)
(***************************************************************************)
\* git_commit_create: the OID is decided by the content of the commit
CommitRecord(parent, tree, pick) ==
    [parents |-> << parent >>, tree |-> tree,
     msg |-> CommitLookup(odb, pick).msg]
Stored(rec) == { o \in AllOids(odb) : CommitLookup(odb, o) = rec }
CommitCreate(rec) ==
    IF Stored(rec) # {} THEN CHOOSE o \in Stored(rec) : TRUE
    ELSE NOrig + Len(odb) + 1

\* an update that moves the branch being rebased instead of HEAD
UpdateBranchForCommit(id) ==
    refs' = [refs EXCEPT ![TOPIC] = id] /\ UNCHANGED head

\* git_reference__update_for_commit on "HEAD": the branch HEAD names, or
\* HEAD itself when it is detached
UpdateHeadForCommit(id) ==
    IF head.sym
    THEN refs' = [refs EXCEPT ![head.name] = id] /\ UNCHANGED head
    ELSE head' = DirectHead(id) /\ UNCHANGED refs

\* the line rebase_commit_merge appends to 'rewritten' (lines 783-787)
RewrittenLine(old, new) == << OidFmt(old), OidFmt(new) >>

\* where a git_rebase_commit can be cut short: git_commit_create fails; the
\* commit is stored and git_reference__update_for_commit fails, or the
\* process is killed before it; HEAD is updated and the append to rewritten
\* fails, or the process is killed before it
CommitStops == {"none", "fail_commit_create", "fail_update",
                "kill_before_update", "fail_rewritten",
                "kill_before_rewritten"}
UpdateStops == {"fail_update", "kill_before_update"}
RewrittenStops == {"fail_rewritten", "kill_before_rewritten"}

\* whether rebase_commit_merge finds a staged pick (line 736)
PickStaged(st) == st.msgnum # 0 /\ st.current # NoOid

\* an index that never reports a conflict
HasConflictsNever(ix) == FALSE

\* git_index_has_conflicts (line 745)
HasConflicts(ix) == ix.conflicts # {}

\* a diff that reports every path as changed
DiffTreeToIndexAll(tree, ix) == Paths

\* git_diff_tree_to_index: the paths whose index entry differs from the tree
DiffTreeToIndex(tree, ix) == { x \in Paths : ix.entries[x] # tree[x] }

\* rebase_commit_merge cut short at git_reference__update_for_commit (lines
\* 779-781): the commit is stored, no reference has moved
CommitUpdateStopped(p, stop) ==
    /\ Return(p, "commit",
              IF stop = "fail_update" THEN GIT_ERROR ELSE "KILLED",
              "update_for_commit")
    /\ UNCHANGED << head, refs >>

\* rebase_commit_merge: the append of the line to rewritten (lines 783-787),
\* and the return
CommitAppend(p, st, id, stop) ==
    IF stop = "none"
    THEN /\ files' = AppendFile("rewritten", << RewrittenLine(st.current, id) >>)
         /\ Return(p, "commit", GIT_OK, "")
    ELSE /\ UNCHANGED files
         /\ Return(p, "commit",
                   IF stop = "fail_rewritten" THEN GIT_ERROR ELSE "KILLED",
                   "setupfile")

\* rebase_commit_merge from its call: the tests of the staged pick and of the
\* index, the commit HEAD resolves to, the diff against its tree and
\* git_commit_create on top of it (lines 736-777).  While HEAD is a direct
\* reference the call reads and writes no branch, so no write of a branch
\* can land inside it with an effect it would not have before it, and the
\* update of HEAD (779-781) and the append (783-787) are part of the step.
\* While HEAD is symbolic the commit is read from the branch and written to
\* it, and the update and the append are steps of their own.
RebaseCommitMerge(p, st, stop) ==
    LET rec == CommitRecord(HeadOid, index.entries, st.current)
        id == CommitCreate(rec)
    IN  IF ~PickStaged(st)
        THEN /\ Return(p, "commit", GIT_ERROR, "No rebase-merge state files exist")
             /\ stop = "none"
             /\ UNCHANGED << files, head, refs, odb, hist >>
        ELSE IF HasConflicts(index)
        THEN /\ Return(p, "commit", GIT_EMERGECONFLICT,
                       "Conflicts have not been resolved")
             /\ stop = "none"
             /\ hist' = [hist EXCEPT !.conflict = st.msgnum]
             /\ UNCHANGED << files, head, refs, odb >>
        ELSE IF DiffTreeToIndex(HeadTree, index) = {}
        THEN /\ Return(p, "commit", GIT_EAPPLIED,
                       "This patch has already been applied")
             /\ stop = "none"
             /\ hist' = [hist EXCEPT !.applied = TRUE]
             /\ UNCHANGED << files, head, refs, odb >>
        ELSE IF stop = "fail_commit_create"
        THEN /\ Return(p, "commit", GIT_ERROR, "commit_create")
             /\ UNCHANGED << files, head, refs, odb, hist >>
        ELSE /\ Stored(rec) # {} \/ Len(odb) < MaxNewCommits
             /\ odb' = IF Stored(rec) # {} THEN odb ELSE Append(odb, rec)
             /\ UNCHANGED hist
             /\ IF head.sym
                THEN /\ stop = "none"
                     /\ proc' = [proc EXCEPT ![p] =
                                    [Idle EXCEPT !.pc = "commit_update",
                                                 !.state = st,
                                                 !.commit_id = id,
                                                 !.entry = Entry]]
                     /\ UNCHANGED << files, head, refs >>
                ELSE IF stop \in UpdateStops
                THEN /\ CommitUpdateStopped(p, stop)
                     /\ UNCHANGED files
                ELSE /\ UpdateHeadForCommit(id)
                     /\ CommitAppend(p, st, id, stop)

\* git_rebase_commit from its call (lines 815-819, 736-787)
CommitCall(p, stop) ==
    /\ proc[p].pc = "idle"
    /\ \E st \in {RebaseState} :
         IF st.error # GIT_OK
         THEN /\ Return(p, "commit", st.error, st.msg)
              /\ stop = "none"
              /\ UNCHANGED << files, head, refs, odb, hist >>
         ELSE RebaseCommitMerge(p, st, stop)
    /\ Fault(stop # "none")
    /\ UNCHANGED << mergeDir, index, workdir, origHead, applyDir, applyFiles, notes,
                    edits, inits >>

\* git_reference__update_for_commit of a git_rebase_commit that read HEAD
\* through a branch (lines 779-781): the branch HEAD names is set to the new
\* commit, whatever it holds by now
CommitUpdate(p, stop) ==
    /\ proc[p].pc = "commit_update"
    /\ stop \in UpdateStops \cup {"none"}
    /\ IF stop \in UpdateStops
       THEN CommitUpdateStopped(p, stop)
       ELSE /\ UpdateHeadForCommit(proc[p].commit_id)
            /\ proc' = [proc EXCEPT ![p].pc = "commit_rewritten"]
    /\ Fault(stop # "none")
    /\ UNCHANGED << mergeDir, files, index, workdir, odb, origHead, applyDir,
                    applyFiles, notes, edits, inits, hist >>

\* the append of such a git_rebase_commit (lines 783-787)
CommitRewritten(p, stop) ==
    /\ proc[p].pc = "commit_rewritten"
    /\ stop \in RewrittenStops \cup {"none"}
    /\ CommitAppend(p, proc[p].state, proc[p].commit_id, stop)
    /\ Fault(stop # "none")
    /\ UNCHANGED << mergeDir, head, refs, index, workdir, odb, origHead,
                    applyDir, applyFiles, notes, edits, inits, hist >>

\* git_rebase_commit: another writer can act between its read of the branch
\* and its update, and between the update and the append
RebaseCommit(p, stop) ==
    \/ CommitCall(p, stop)
    \/ CommitUpdate(p, stop)
    \/ CommitRewritten(p, stop)

(***************************************************************************)
(* git_rebase_abort.                                                       *)
(***************************************************************************)
\* a reset that leaves the working directory alone (GIT_RESET_MIXED)
ResetMixed(hd, o) ==
    /\ IF hd.sym
       THEN refs' = [refs EXCEPT ![hd.name] = o] /\ head' = hd
       ELSE head' = DirectHead(o) /\ UNCHANGED refs
    /\ index' = CleanIndex(CommitTree(odb, o))
    /\ UNCHANGED workdir

\* git_reset with GIT_RESET_HARD: the branch HEAD names (or HEAD itself) is
\* moved to the commit, index and working directory are made its tree
ResetHard(hd, o) ==
    /\ IF hd.sym
       THEN refs' = [refs EXCEPT ![hd.name] = o] /\ head' = hd
       ELSE head' = DirectHead(o) /\ UNCHANGED refs
    /\ index' = CleanIndex(CommitTree(odb, o))
    /\ workdir' = CommitTree(odb, o)

\* the HEAD git_rebase_abort creates (lines 844-849)
AbortHead(st) ==
    IF st.head_detached THEN DirectHead(st.orig_head_id)
    ELSE SymbolicHead(st.orig_head_name)

\* git_rebase_abort up to its git_reset: rebase_state, HEAD created again,
\* git_reset to orig_head_id (lines 841-857); ok = FALSE is a failing
\* git_reset.  Another writer of the branch acting inside these lines
\* leaves what it leaves acting before them: the reset is the one access to
\* the branch.
AbortReset(p, ok) ==
    \E st \in {RebaseState} :
        /\ proc[p].pc = "idle"
        /\ IF st.error # GIT_OK
           THEN /\ ok
                /\ Return(p, "abort", st.error, st.msg)
                /\ UNCHANGED << head, refs, index, workdir >>
           ELSE IF ~ok
           THEN /\ head' = AbortHead(st)
                /\ Return(p, "abort", GIT_ERROR, "reset")
                /\ UNCHANGED << refs, index, workdir >>
           ELSE /\ ResetHard(AbortHead(st), st.orig_head_id)
                /\ proc' = [proc EXCEPT ![p] =
                               [Idle EXCEPT !.pc = "abort_cleanup", !.state = st,
                                            !.entry = Entry]]
        /\ Fault(~ok)
        /\ UNCHANGED << mergeDir, files, applyDir, applyFiles, odb, origHead,
                        notes, edits, inits, hist >>

\* git_rebase_abort: rebase_cleanup (line 860), then return
AbortCleanup(p) ==
    /\ proc[p].pc = "abort_cleanup"
    /\ RemoveStateDir
    /\ Return(p, "abort", GIT_OK, "")
    /\ UNCHANGED << applyDir, applyFiles, head, refs, index, workdir, odb,
                    origHead, notes, edits, inits, faults >>

\* git_rebase_abort: another writer can act between its reset and its
\* cleanup
RebaseAbort(p) ==
    \/ \E ok \in BOOLEAN : AbortReset(p, ok)
    \/ AbortCleanup(p)

(***************************************************************************)
(* git_rebase_finish.                                                      *)
(***************************************************************************)
NOTES_REF == "refs/notes/commits"
HEXSZ == Len(HexTable[1])

\* rebase_normalize_opts: the caller's rewrite_notes_ref, else the one the
\* configuration names (notes.rewriteRef is not set in this repository)
ConfigRewriteRef == NoRef
RebaseNormalizeOpts(given) == IF given # NoRef THEN given ELSE ConfigRewriteRef

\* a loop that copies no note
CopyNotesNone(lines, nt, linenum) ==
    [error |-> GIT_OK, notes |-> nt, linenum |-> linenum]

\* rebase_copy_notes, the loop over the lines of 'rewritten', with
\* rebase_copy_note: a commit without a note is skipped, git_note_create
\* does not overwrite
RECURSIVE CopyNotes(_, _, _)
CopyNotes(lines, nt, linenum) ==
    IF lines = << >> THEN [error |-> GIT_OK, notes |-> nt, linenum |-> linenum]
    ELSE LET ln == Head(lines)
             wellFormed == /\ Len(ln) = 2
                           /\ Len(ln[1]) = HEXSZ /\ Len(ln[2]) = HEXSZ
                           /\ IsHex(ln[1]) /\ IsHex(ln[2])
             from == OidFromStr(ln[1])
             to == OidFromStr(ln[2])
         IN  IF ~wellFormed
             THEN [error |-> GIT_ERROR, notes |-> nt, linenum |-> linenum]
             ELSE IF from \notin DOMAIN nt
             THEN CopyNotes(Tail(lines), nt, linenum + 1)
             ELSE IF to \in DOMAIN nt
             THEN [error |-> GIT_EEXISTS, notes |-> nt, linenum |-> linenum]
             ELSE CopyNotes(Tail(lines),
                            [o \in DOMAIN nt \cup {to} |->
                                IF o = to THEN nt[from] ELSE nt[o]],
                            linenum + 1)

\* a line count that starts at 0
FirstLinenumZero == Len(<< >>)

\* rebase_copy_notes: linenum starts at 1 (line 908)
FirstLinenum == 1

\* the message of on_error: (line 950)
InvalidRewrittenMsg(linenum) ==
    "Invalid rewritten file at line " \o IntFmt(linenum)

\* rebase_copy_notes
RebaseCopyNotes(ref) ==
    IF ref = NoRef
    THEN [error |-> GIT_OK, notes |-> notes, linenum |-> FirstLinenum]
    ELSE IF ~Exists("rewritten")
    THEN [error |-> GIT_ENOTFOUND, notes |-> notes, linenum |-> FirstLinenum]
    ELSE CopyNotes(files["rewritten"], notes, FirstLinenum)

\* git_reference_create_matching: the reference is set only if it still
\* holds the expected old value
RefMatches(name, old) == name \in DOMAIN refs /\ refs[name] = old

\* an expected old value that is whatever the branch holds now
FinishExpectedCurrent(st) == refs[st.orig_head_name]

\* the old value git_rebase_finish expects in the branch (line 990)
FinishExpected(st) == st.orig_head_id

\* what a build does with the NULL orig_head_name of a detached rebase:
\* the assertion of the reference code fails, or NULL is dereferenced
NullNameOutcomes == {"SIGABRT", "SIGSEGV"}

\* the return of a git_rebase_finish whose normalized options name ref
FinishReturn(p, ref, code, msg) ==
    proc' = [proc EXCEPT ![p] =
                [Idle EXCEPT !.ret = [op |-> "finish", code |-> code, msg |-> msg],
                             !.rewrite_notes_ref = ref]]

\* git_reference_create_matching on the original branch (lines 988-990): the
\* branch becomes the terminal commit if it still holds orig_head_id, and
\* finish goes on to HEAD; else GIT_EMODIFIED
CreateMatching(p, st, ref, terminal, entry) ==
    IF ~RefMatches(st.orig_head_name, FinishExpected(st))
    THEN /\ FinishReturn(p, ref, GIT_EMODIFIED, "reference_create_matching")
         /\ UNCHANGED refs
    ELSE /\ refs' = [refs EXCEPT ![st.orig_head_name] = terminal]
         /\ proc' = [proc EXCEPT ![p] =
                        [Idle EXCEPT !.pc = "finish_symbolic",
                                     !.state = st,
                                     !.rewrite_notes_ref = ref,
                                     !.entry = entry]]

\* git_rebase_finish from its call: rebase_normalize_opts, rebase_state and
\* the terminal commit HEAD resolves to (lines 975-987).  While HEAD is a
\* direct reference these lines read no branch, so no write of a branch can
\* land between them and the compare-and-set with an effect it would not
\* have before the call, and the compare-and-set (988-990) is part of the
\* step.  While HEAD is symbolic to the original branch the terminal commit
\* is read from the branch, and the compare-and-set is a step of its own.
FinishHead(p, given) ==
    \E st \in {RebaseState} :
    LET ref == RebaseNormalizeOpts(given)
    IN  /\ proc[p].pc = "idle"
        /\ IF st.error # GIT_OK
           THEN /\ FinishReturn(p, ref, st.error, st.msg)
                /\ UNCHANGED refs
           ELSE IF st.orig_head_name = NoRef
           THEN /\ \E sig \in NullNameOutcomes : FinishReturn(p, ref, sig, "")
                /\ UNCHANGED refs
           ELSE IF head.sym /\ head.name = st.orig_head_name
           THEN /\ proc' = [proc EXCEPT ![p] =
                               [Idle EXCEPT !.pc = "finish_create",
                                            !.state = st,
                                            !.terminal = HeadOid,
                                            !.rewrite_notes_ref = ref,
                                            !.entry = Entry]]
                /\ UNCHANGED refs
           ELSE CreateMatching(p, st, ref, HeadOid, Entry)
        /\ UNCHANGED << mergeDir, files, applyDir, applyFiles, head, index,
                        workdir, odb, origHead, notes, edits, inits, hist,
                        faults >>

\* the compare-and-set of a git_rebase_finish that read the terminal commit
\* from the branch (lines 988-990)
FinishCreateMatching(p) ==
    /\ proc[p].pc = "finish_create"
    /\ CreateMatching(p, proc[p].state, proc[p].rewrite_notes_ref,
                      proc[p].terminal, proc[p].entry)
    /\ UNCHANGED << mergeDir, files, applyDir, applyFiles, head, index,
                    workdir, odb, origHead, notes, edits, inits, hist,
                    faults >>

\* git_rebase_finish after its update of the branch: HEAD becomes symbolic
\* to the original branch, rebase_copy_notes, rebase_cleanup (lines 991-997);
\* ok = FALSE is a failing git_reference_symbolic_create.  None of these
\* reads or writes a branch; the notes created before a failing line stay.
FinishSymbolicCreate(p, ok) ==
    LET ref == proc[p].rewrite_notes_ref
        copied == RebaseCopyNotes(ref)
    IN  /\ proc[p].pc = "finish_symbolic"
        /\ Fault(~ok)
        /\ IF ~ok
           THEN /\ FinishReturn(p, ref, GIT_ERROR, "symbolic_create")
                /\ UNCHANGED << mergeDir, hist, files, head, notes >>
           ELSE /\ head' = SymbolicHead(proc[p].state.orig_head_name)
                /\ notes' = copied.notes
                /\ IF copied.error # GIT_OK
                   THEN /\ FinishReturn(p, ref, copied.error,
                                        IF copied.error = GIT_ERROR
                                        THEN InvalidRewrittenMsg(copied.linenum)
                                        ELSE "copy_notes")
                        /\ UNCHANGED << mergeDir, hist, files >>
                   ELSE /\ RemoveStateDir
                        /\ FinishReturn(p, ref, GIT_OK, "")
        /\ UNCHANGED << applyDir, applyFiles, refs, index, workdir, odb,
                        origHead, edits, inits >>

\* git_rebase_finish: another writer can act before its update of the
\* branch and between that update and what follows
RebaseFinish(p) ==
    \/ \E given \in {NoRef, NOTES_REF} : FinishHead(p, given)
    \/ FinishCreateMatching(p)
    \/ \E ok \in BOOLEAN : FinishSymbolicCreate(p, ok)

(***************************************************************************)
(* The environment: the caller between two operations, another writer.     *)
(***************************************************************************)
\* what the caller writes into a file
StagedContents == {"b", "c"}
UnstagedContent == "d"

ClearReturn == proc' = [proc EXCEPT ![MainProc].ret = NoReturn,
                                    ![MainProc].rewrite_notes_ref = NoRef]

\* the caller edits a file and stages it (this also resolves a conflict)
CallerStage(x, c) ==
    /\ proc[MainProc].pc = "idle"
    /\ Budget
    /\ index.entries[x] # c \/ x \in index.conflicts \/ workdir[x] # c
    /\ edits' = edits + 1
    /\ index' = [entries |-> [index.entries EXCEPT ![x] = c],
                 conflicts |-> index.conflicts \ {x}]
    /\ workdir' = [workdir EXCEPT ![x] = c]
    /\ ClearReturn
    /\ UNCHANGED << mergeDir, files, head, refs, odb, origHead, applyDir, applyFiles, notes, inits, hist,
                    faults >>

\* the caller edits a file of the working directory without staging it
CallerEditWorkdir(x, c) ==
    /\ proc[MainProc].pc = "idle"
    /\ Budget
    /\ workdir[x] # c
    /\ edits' = edits + 1
    /\ workdir' = [workdir EXCEPT ![x] = c]
    /\ ClearReturn
    /\ UNCHANGED << mergeDir, files, head, refs, index, odb, origHead, applyDir, applyFiles, notes,
                    inits, hist, faults >>

\* another writer moves the branch while the rebase is in progress, between
\* two calls of the caller or between two steps of one
OtherWriterOid == OidY
ExtMoveRef ==
    /\ mergeDir
    /\ Budget
    /\ refs[TOPIC] # OtherWriterOid
    /\ edits' = edits + 1
    /\ refs' = [refs EXCEPT ![TOPIC] = OtherWriterOid]
    /\ IF proc[MainProc].pc = "idle" THEN ClearReturn ELSE UNCHANGED proc
    /\ UNCHANGED << mergeDir, files, head, index, workdir, odb, origHead, applyDir, applyFiles, notes,
                    inits, hist, faults >>

\* what another program leaves in .git/rebase-apply: nothing yet, or the
\* files git.git's patch-application rebase writes first
ApplyContents ==
    { NoFiles,
      [n \in {"head-name", "onto", "orig-head"} |->
          IF n = "head-name" THEN OneLine(TOPIC)
          ELSE IF n = "onto" THEN OneLine(OidFmt(OidB))
          ELSE OneLine(OidFmt(OidZ))] }

\* another program creates the directory .git/rebase-apply
ExtRebaseApply(fs) ==
    /\ proc[MainProc].pc = "idle"
    /\ ~applyDir
    /\ Budget
    /\ edits' = edits + 1
    /\ applyDir' = TRUE
    /\ applyFiles' = fs
    /\ ClearReturn
    /\ UNCHANGED << mergeDir, files, head, refs, index, workdir, odb, origHead,
                    notes, inits, hist, faults >>

\* the ways a line "<old> <new>\n" of rewritten ends up malformed: an OID of
\* the wrong length, no separating space, no terminating newline
DamageKinds == {"length", "separator", "newline"}
\* the token that stands for the end of the file where a newline should be
NoNewline == "<EOF>"
Damaged(ln, kind) ==
    IF kind = "length" THEN << ln[1], ln[2] \o "0" >>
    ELSE IF kind = "separator" THEN << ln[1] \o ln[2] >>
    ELSE << ln[1], ln[2], NoNewline >>

\* line i of rewritten is damaged, by a torn write or by another program;
\* only the last line of a file can lack its newline
DamageRewritten(i, kind) ==
    /\ proc[MainProc].pc = "idle"
    /\ mergeDir /\ Exists("rewritten")
    /\ i \in 1..Len(files["rewritten"])
    /\ Len(files["rewritten"][i]) = 2
    /\ kind = "newline" => i = Len(files["rewritten"])
    /\ Fault(TRUE)
    /\ files' = [files EXCEPT !["rewritten"][i] = Damaged(@, kind)]
    /\ ClearReturn
    /\ UNCHANGED << mergeDir, head, refs, index, workdir, odb, origHead, applyDir, applyFiles, notes,
                    edits, inits, hist >>

Next ==
    \/ InitStep(MainProc)
    \/ Interrupt(MainProc)
    \/ \E stop \in NextStops : RebaseNext(MainProc, stop)
    \/ \E stop \in CommitStops : RebaseCommit(MainProc, stop)
    \/ RebaseAbort(MainProc)
    \/ RebaseFinish(MainProc)
    \/ \E x \in Paths, c \in StagedContents : CallerStage(x, c)
    \/ \E x \in Paths : CallerEditWorkdir(x, UnstagedContent)
    \/ ExtMoveRef
    \/ \E fs \in ApplyContents : ExtRebaseApply(fs)
    \/ \E i \in 1..MaxNewCommits, kind \in DamageKinds : DamageRewritten(i, kind)
Spec == Init /\ [][Next]_vars

(***************************************************************************)
(* The same run in which the caller also resolves the conflicts that       *)
(* git_rebase_next reported, as the protocol asks of it: a resolution is   *)
(* no event of the budget, so that a rebase whose picks conflict can be    *)
(* carried to its end and still meet one failing system call.              *)
(***************************************************************************)
CallerResolve(x, c) ==
    /\ proc[MainProc].pc = "idle"
    /\ x \in index.conflicts
    /\ index' = [entries |-> [index.entries EXCEPT ![x] = c],
                 conflicts |-> index.conflicts \ {x}]
    /\ workdir' = [workdir EXCEPT ![x] = c]
    /\ ClearReturn
    /\ UNCHANGED << mergeDir, files, head, refs, odb, origHead, applyDir, applyFiles, notes, inits, hist,
                    edits, faults >>

NextResolving ==
    \/ Next
    \/ \E x \in Paths, c \in StagedContents : CallerResolve(x, c)
SpecResolving == Init /\ [][NextResolving]_vars

(***************************************************************************)
(* Two processes each call git_rebase once on the same repository; their   *)
(* steps interleave freely.                                                *)
(***************************************************************************)
RaceInit(p) == proc[p].ret.op = "none" /\ InitStep(p)
NextRace == \E p \in Procs : RaceInit(p)
SpecRace == Init /\ [][NextRace]_vars

(***************************************************************************)
(* Properties.  LastRet(pr) is what the caller's last call returned; a     *)
(* step of the caller or of another writer in between clears it.           *)
(***************************************************************************)
LastRet(pr) == pr[MainProc].ret
LoadingOps == {"next", "commit", "abort", "finish"}

\* what a step of git_rebase_next, git_rebase_commit, git_rebase_abort or
\* git_rebase_finish works on: the state its rebase_state loaded, and the repository as it was
\* when the call began
CallState == IF proc[MainProc].pc = "idle" THEN RebaseState
             ELSE proc[MainProc].state
AtCall == IF proc[MainProc].pc = "idle" THEN Entry ELSE proc[MainProc].entry
\* no other writer has acted since the call began
Undisturbed == edits' = AtCall.edits
\* the commit HEAD resolved to when the call began, and its tree
EntryHeadOid == ResolveHead(AtCall.head, AtCall.refs)
EntryHeadTree == CommitTree(odb, EntryHeadOid)
\* what the call before the one in progress returned
RetAtCall == IF proc[MainProc].pc = "idle" THEN LastRet(proc)
             ELSE proc[MainProc].prev
\* the step is one of a git_rebase_next
NextStep ==
    \/ /\ proc[MainProc].pc = "idle"
       /\ \/ LastRet(proc').op = "next"
          \/ proc'[MainProc].pc = "next_check"
    \/ /\ proc[MainProc].pc \in {"next_check", "next_checkout"}
       /\ proc' # proc

\* the step is one of a git_rebase_commit
CommitStep ==
    \/ /\ proc[MainProc].pc = "idle"
       /\ \/ LastRet(proc').op = "commit"
          \/ proc'[MainProc].pc = "commit_update"
    \/ /\ proc[MainProc].pc \in {"commit_update", "commit_rewritten"}
       /\ proc' # proc

\* C1: next, commit, abort and finish fail with GIT_ENOTFOUND exactly when
\* there is no state directory (neither rebase-apply nor rebase-merge), and
\* get past the load of the state exactly when there is one.
C1_NotFoundIffNoDir ==
    [][ LastRet(proc').op \in LoadingOps
        => /\ (LastRet(proc').code = GIT_ENOTFOUND) <=> RebaseStateType = "NONE"
           /\ (RebaseState.error = GIT_OK) <=> RebaseStateType # "NONE" ]_vars

\* C2 as stated: of two concurrent git_rebase calls at most one succeeds,
\* and when one does the other fails with the in-progress error of the
\* precondition.
InitReturned(p) == proc[p].ret.op = "init"
InitSucceeded(p) == InitReturned(p) /\ proc[p].ret.code = GIT_OK
InProgressMsg == "There is an existing rebase in progress"
MkdirMsg == "Failed to create rebase directory"
DirtyIndexMsg == "Uncommitted changes exist in index"
DirtyWorkdirMsg == "Unstaged changes exist in workdir"
RaceOver == faults = 0 /\ \A p \in Procs : InitReturned(p)
C2_LoserInProgress ==
    RaceOver =>
        /\ Cardinality({ p \in Procs : InitSucceeded(p) }) <= 1
        /\ \A p, q \in Procs :
              InitSucceeded(p) /\ q # p => proc[q].ret.msg = InProgressMsg

\* C2, amended: of two concurrent git_rebase calls at most one succeeds, and
\* when one does the other fails with the in-progress error, or, having
\* passed that precondition before the directory was created, with the
\* dirty-index error, the dirty-workdir error or the error of the
\* directory creation.
C2_LoserFails ==
    RaceOver =>
        /\ Cardinality({ p \in Procs : InitSucceeded(p) }) <= 1
        /\ \A p, q \in Procs :
              InitSucceeded(p) /\ q # p =>
                 /\ proc[q].ret.code = GIT_ERROR
                 /\ proc[q].ret.msg \in {InProgressMsg, DirtyIndexMsg,
                                          DirtyWorkdirMsg, MkdirMsg}
C2_Witness ==
    /\ RaceOver
    /\ \E p, q \in Procs :
          InitSucceeded(p) /\ q # p /\ proc[q].ret.msg = MkdirMsg

\* C3: when git_rebase fails after it created the state directory, the
\* directory is gone when it returns.
AfterMkdirMsgs == {"set_orig_head", "setupfile", "reference_create", "checkout"}
C3_FailedInitLeavesNoDir ==
    ( /\ LastRet(proc).op = "init"
      /\ LastRet(proc).code = GIT_ERROR
      /\ LastRet(proc).msg \in AfterMkdirMsgs ) => ~mergeDir

\* C4: git_rebase_abort on a loadable state, when its reset does not fail
\* and no other writer moves the branch while it runs, succeeds and leaves
\* HEAD resolving to orig_head_id (symbolic to the original branch, moved
\* back to that commit, unless the rebase was detached), index and working
\* directory equal to that commit's tree, and no state directory.
C4_AbortRestores ==
    [][ \A st \in {CallState} :
          ( /\ LastRet(proc').op = "abort"
            /\ st.error = GIT_OK
            /\ faults' = faults
            /\ Undisturbed )
          => /\ LastRet(proc').code = GIT_OK
             /\ ResolveHead(head', refs') = st.orig_head_id
             /\ IF st.head_detached
                THEN head' = DirectHead(st.orig_head_id)
                ELSE /\ head' = SymbolicHead(st.orig_head_name)
                     /\ refs'[st.orig_head_name] = st.orig_head_id
             /\ workdir' = CommitTree(odb, st.orig_head_id)
             /\ index' = CleanIndex(CommitTree(odb, st.orig_head_id))
             /\ ~mergeDir' /\ files' = NoFiles ]_vars
C4_Witness ==
    /\ LastRet(proc) = [op |-> "abort", code |-> GIT_OK, msg |-> ""]
    /\ head = SymbolicHead(TOPIC) /\ refs[TOPIC] = OidZ
    /\ workdir = CommitTree(odb, OidZ)
    /\ Len(odb) >= 1

\* the lines of the rewritten log, its two columns as commits, and the plan
RewrittenLines(fs) == IF "rewritten" \in DOMAIN fs THEN fs["rewritten"] ELSE << >>
OldColumn(fs) == [i \in 1..Len(RewrittenLines(fs)) |->
                    OidFromStr(RewrittenLines(fs)[i][1])]
NewColumn(fs) == [i \in 1..Len(RewrittenLines(fs)) |->
                    OidFromStr(RewrittenLines(fs)[i][2])]
PlanNumbers == 1..(Len(DecTable) - 1)
PlanEnd(fs) == IF "end" \in DOMAIN fs /\ IsDec(Trimmed(fs["end"]))
               THEN Strtol(Trimmed(fs["end"])) ELSE 0
PlanPick(fs, n) == OidFromStr(Trimmed(fs[CmtFile(n)]))

\* the first-parent chain from tip down to, and without, onto: oldest first
RECURSIVE ChainDownTo(_, _, _)
ChainDownTo(db, tip, onto) ==
    IF tip = onto \/ ParentCount(db, tip) = 0 THEN << >>
    ELSE Append(ChainDownTo(db, CommitLookup(db, tip).parents[1], onto), tip)

\* the step is a successful git_rebase_finish of a rebase whose git_rebase
\* succeeded
FinishedOk == /\ LastRet(proc').op = "finish"
              /\ LastRet(proc').code = GIT_OK
              /\ hist.initOk
\* the chain from the new tip of the branch of st down to onto is made of
\* n single-parent commits, which are all that onto does not reach, and
\* they are the right column of the rewritten log
LinearChain(st, n) ==
    LET tip == refs'[st.orig_head_name]
        chain == ChainDownTo(odb', tip, st.onto_id)
    IN  /\ Len(chain) = n
        /\ Range(chain) = Ancestors(odb', {tip}) \ Ancestors(odb', {st.onto_id})
        /\ \A i \in 1..Len(chain) : ParentCount(odb', chain[i]) = 1
        /\ chain = NewColumn(files)

\* every pick of the plan has been committed: the chain from the new tip of
\* the branch of st down to onto has a commit other than the pick that
\* carries the message of the pick
EveryPickCommitted(st) ==
    LET chain == ChainDownTo(odb', refs'[st.orig_head_name], st.onto_id)
    IN  \A n \in 1..st.end_ :
            /\ Exists(CmtFile(n))
            /\ \E i \in 1..Len(chain) :
                   /\ chain[i] # PlanPick(files, n)
                   /\ CommitLookup(odb', chain[i]).msg
                         = CommitLookup(odb, PlanPick(files, n)).msg

\* C5: after a successful finish of a rebase in which no commit answered
\* GIT_EAPPLIED, the chain from the new tip down to onto has exactly 'end'
\* new single-parent commits, the right column of rewritten in line order.
\* It is stated for the finish the claim is about: every pick of the plan
\* has been staged and committed, and no other writer moves the branch while
\* finish runs.
C5_ChainHasEndCommits ==
    [][ ( FinishedOk /\ ~hist.applied ) => \A st \in {CallState} :
          ( /\ Undisturbed
            /\ st.msgnum = st.end_
            /\ EveryPickCommitted(st) )
          => LinearChain(st, st.end_) ]_vars

\* C6: in a rebase git_rebase started and in which no call is cut short,
\* whatever commits the caller repeats and whatever it stages between them,
\* every line of rewritten is
\* "<old_hex> <new_hex>", every old OID is a pick of the plan cmt.1 ..
\* cmt.end, no old OID is on two lines, and the log only grows by appended
\* lines.  (The claim also has the old OIDs be a prefix of the plan; a pick
\* the caller passes over with a second git_rebase_next is absent from the
\* log, so that clause is left out of the formula.)
RewrittenWellFormed(fs) ==
    \A i \in 1..Len(RewrittenLines(fs)) :
        /\ Len(RewrittenLines(fs)[i]) = 2
        /\ IsHex(RewrittenLines(fs)[i][1]) /\ IsHex(RewrittenLines(fs)[i][2])
OldIsPlanned(fs) ==
    \A i \in 1..Len(RewrittenLines(fs)) :
        \E n \in 1..PlanEnd(fs) :
            CmtFile(n) \in DOMAIN fs /\ OldColumn(fs)[i] = PlanPick(fs, n)
NoDuplicateOld(fs) ==
    \A i, j \in 1..Len(RewrittenLines(fs)) :
        OldColumn(fs)[i] = OldColumn(fs)[j] => i = j
C6_RewrittenIsMapping ==
    [][ hist.initOk /\ hist'.initOk /\ faults' = 0 =>
          /\ RewrittenWellFormed(files')
          /\ OldIsPlanned(files')
          /\ NoDuplicateOld(files')
          /\ SubSeq(RewrittenLines(files'), 1, Len(RewrittenLines(files)))
                 = RewrittenLines(files) ]_vars

\* C7: git_rebase_finish of a rebase git_rebase started for a branch given
\* as a commit, not as a reference (a detached HEAD), succeeds,
\* leaves HEAD a direct reference to the terminal commit and removes the
\* state directory.
C7_DetachedFinish ==
    [][ \A st \in {CallState} : \A e \in {AtCall} :
          ( /\ LastRet(proc').op = "finish"
            /\ hist.initOk
            /\ st.error = GIT_OK
            /\ st.head_detached
            /\ faults' = faults
            /\ Undisturbed )
          => /\ LastRet(proc').code = GIT_OK
             /\ head' = DirectHead(ResolveHead(e.head, e.refs))
             /\ ~mergeDir' ]_vars

\* the step of a git_rebase_finish that holds its compare-and-set, and the
\* terminal commit that step has resolved HEAD to
CompareAndSetStep ==
    \/ /\ proc[MainProc].pc = "idle"
       /\ proc'[MainProc].pc = "finish_symbolic" \/ LastRet(proc').op = "finish"
    \/ /\ proc[MainProc].pc = "finish_create"
       /\ proc' # proc
TerminalCommit == IF proc[MainProc].pc = "idle" THEN ResolveHead(head, refs)
                  ELSE proc[MainProc].terminal

\* C8: git_rebase_finish sets the original branch only if it still holds
\* orig_head_id: when another writer has moved the branch since git_rebase,
\* finish fails with GIT_EMODIFIED and leaves the reference as that writer
\* set it, and else the branch becomes the commit HEAD resolved to; what
\* finish does before the compare-and-set and after it writes no branch, so
\* a value another writer stores meanwhile is compared, or stays.
C8_FinishCompareAndSet ==
    [][ /\ ( proc[MainProc].pc = "idle" /\ proc'[MainProc].pc = "finish_create" )
           => /\ refs' = refs
              /\ proc'[MainProc].terminal = ResolveHead(head, refs)
        /\ CompareAndSetStep
           => \A st \in {CallState} :
                 ( st.error = GIT_OK /\ st.orig_head_name # NoRef )
                 => IF refs[st.orig_head_name] # st.orig_head_id
                    THEN /\ LastRet(proc').code = GIT_EMODIFIED
                         /\ refs' = refs
                    ELSE /\ refs' = [refs EXCEPT ![st.orig_head_name] =
                                                   TerminalCommit]
                         /\ proc'[MainProc].pc = "finish_symbolic"
        /\ ( proc[MainProc].pc = "finish_symbolic" /\ proc' # proc )
           => refs' = refs ]_vars
C8_Witness ==
    /\ LastRet(proc).op = "finish"
    /\ LastRet(proc).code = GIT_EMODIFIED
    /\ hist.initOk
    /\ ~head.sym
    /\ refs[TOPIC] = OtherWriterOid
    /\ RebaseState.orig_head_id = OidZ

\* C9: when git_rebase succeeds, the files cmt.1 .. cmt.end name exactly the
\* commits reachable from branch and not from upstream (onto when no
\* upstream is given) that have at most one parent; they are numbered
\* 1 .. end without a gap and 'end' is their number.
C9_PlanIsRange ==
    [][ ( /\ LastRet(proc').op = "init"
          /\ LastRet(proc').code = GIT_OK )
        => LET l == proc[MainProc]
               up == IF Given(l.upstream) THEN l.upstream.oid ELSE l.onto.oid
               expected == { c \in Ancestors(odb, {l.branch.oid})
                                      \ Ancestors(odb, {up}) :
                               ParentCount(odb, c) <= 1 }
               nums == { n \in PlanNumbers : CmtFile(n) \in DOMAIN files' }
           IN  /\ nums = 1..Cardinality(expected)
               /\ { PlanPick(files', n) : n \in nums } = expected
               /\ "end" \in DOMAIN files'
               /\ files'["end"] = OneLine(IntFmt(Cardinality(expected))) ]_vars
C9_Witness ==
    /\ LastRet(proc) = [op |-> "init", code |-> GIT_OK, msg |-> ""]
    /\ { n \in PlanNumbers : Exists(CmtFile(n)) } = 1..PlanEnd(files)
    /\ { PlanPick(files, n) : n \in 1..PlanEnd(files) } = {OidX, OidY, OidZ}

\* C10: with no state directory, git_rebase fails with the dirty error
\* whenever HEAD and the index or the index and the working directory
\* differ: its check never goes on to p_mkdir, the comparison that meets the
\* difference returns the error, and nothing on the way creates a state
\* directory, moves HEAD or a branch, or touches the index or the working
\* directory.
IndexDirty ==
    \E x \in Paths : index.entries[x] # HeadTree[x] \/ x \in index.conflicts
WorkdirDirty == \E x \in Paths : workdir[x] # index.entries[x]
Dirty == IndexDirty \/ WorkdirDirty
DirtyCheckSteps == {"head_tree", "diff_index", "diff_workdir"}
C10_DirtyRejected ==
    [][ ( /\ proc[MainProc].pc \in DirtyCheckSteps
          /\ Dirty
          /\ LastRet(proc').code # "KILLED" )
        => /\ proc'[MainProc].pc \in DirtyCheckSteps \cup {"idle"}
           /\ proc'[MainProc].pc = "idle"
                 => /\ LastRet(proc').op = "init"
                    /\ LastRet(proc').code = GIT_ERROR
                    /\ LastRet(proc').msg \in {DirtyIndexMsg, DirtyWorkdirMsg}
           /\ ( proc[MainProc].pc = "diff_index" /\ IndexDirty )
                 => LastRet(proc').msg = DirtyIndexMsg
           /\ proc[MainProc].pc = "diff_workdir"
                 => LastRet(proc').msg = DirtyWorkdirMsg
           /\ ~mergeDir'
           /\ UNCHANGED << head, refs, index, workdir >> ]_vars
C10_Witness ==
    /\ LastRet(proc) = [op |-> "init", code |-> GIT_ERROR, msg |-> DirtyWorkdirMsg]
    /\ \E x \in Paths : workdir[x] # index.entries[x]
    /\ index.entries = HeadTree
    /\ ~mergeDir /\ head = SymbolicHead(TOPIC)

\* what a successful commit of the staged pick of st leaves: one commit more
\* on top of the commit HEAD resolved to when the call began, carrying the
\* tree of the index, HEAD moved to it, and one line "<pick> <new commit>"
\* more at the end of rewritten
CommittedOneLine(st) ==
    LET new == ResolveHead(head', refs')
    IN  /\ LastRet(proc').code = GIT_OK
        /\ new # EntryHeadOid
        /\ new \in AllOids(odb')
        /\ CommitLookup(odb', new).parents = << EntryHeadOid >>
        /\ CommitTree(odb', new) = index.entries
        /\ RewrittenLines(files')
              = Append(RewrittenLines(files),
                       << OidFmt(st.current), OidFmt(new) >>)
\* a commit call that left the object database, HEAD, the branches and the
\* state directory as they were
CommitChangedNothing ==
    /\ proc[MainProc].pc = "idle"
    /\ UNCHANGED << odb, head, refs, files, mergeDir >>
\* the step ends a git_rebase_commit that found a staged pick in a loadable
\* state and was not cut short
CommitOnStaged(st) ==
    /\ LastRet(proc').op = "commit"
    /\ st.error = GIT_OK
    /\ PickStaged(st)
    /\ faults' = faults

\* C11 as stated: while the index has conflict entries, commit fails with
\* GIT_EMERGECONFLICT and creates no commit, moves no reference and appends
\* nothing to rewritten; once the caller has resolved the index, commit for
\* the same staged pick, no other writer moving the branch while it runs,
\* succeeds and rewritten gains exactly the line "<pick> <new commit>".
C11_ResolvedCommitSucceeds ==
    [][ LastRet(proc').op = "commit" => \A st \in {CallState} :
          CommitOnStaged(st) =>
             IF index.conflicts # {}
             THEN /\ LastRet(proc').code = GIT_EMERGECONFLICT
                  /\ CommitChangedNothing
             ELSE ( hist.conflict = st.msgnum /\ Undisturbed )
                     => CommittedOneLine(st) ]_vars

\* C11, amended: while the index has conflict entries, commit on a staged
\* pick fails with GIT_EMERGECONFLICT and changes nothing; once the caller
\* has resolved the index, commit for the same staged pick succeeds with
\* exactly one new line "<pick> <new commit>", the new commit on top of the
\* commit HEAD resolved to and HEAD moved to it, when the resolved index
\* differs from the tree of HEAD and no other writer moves the branch while
\* the call runs, and fails with GIT_EAPPLIED, changing nothing, when the
\* resolution left the index equal to the tree of HEAD.
C11_ResolvedCommit ==
    [][ LastRet(proc').op = "commit" => \A st \in {CallState} :
          CommitOnStaged(st) =>
             IF index.conflicts # {}
             THEN /\ LastRet(proc').code = GIT_EMERGECONFLICT
                  /\ CommitChangedNothing
             ELSE hist.conflict = st.msgnum =>
                    IF index.entries # EntryHeadTree
                    THEN Undisturbed => CommittedOneLine(st)
                    ELSE /\ LastRet(proc').code = GIT_EAPPLIED
                         /\ CommitChangedNothing ]_vars
C11_Witness ==
    /\ LastRet(proc) = [op |-> "commit", code |-> GIT_OK, msg |-> ""]
    /\ faults = 0
    /\ RebaseState.error = GIT_OK
    /\ hist.conflict = RebaseState.msgnum
    /\ hist.conflict # 0
    /\ RewrittenLines(files)
          = << << OidFmt(RebaseState.current), OidFmt(HeadOid) >> >>

\* the tree git_rebase_next merges into HEAD for the pick numbered n
NextMerged(n) ==
    LET pick == PlanPick(files, n)
        base == IF ParentCount(odb, pick) = 0 THEN EmptyTree
                ELSE CommitTree(odb, CommitLookup(odb, pick).parents[1])
    IN  MergeTrees(base, EntryHeadTree, CommitTree(odb, pick))
AppliedRet == [op |-> "commit", code |-> GIT_EAPPLIED,
               msg |-> "This patch has already been applied"]

\* C12: when a pick is staged and the index equals the tree of HEAD, commit
\* fails with GIT_EAPPLIED and changes neither HEAD nor rewritten; the next
\* call that follows it moves on to the next pick of the plan: it records
\* msgnum + 1 and the commit of cmt.<msgnum + 1> as the staged pick, adds no
\* line to rewritten, and, the working directory being clean and no other
\* writer moving the branch while it runs, checks the merge of that pick
\* into the tree of HEAD out and succeeds.
C12_EmptyPickSkipped ==
    [][ \A st \in {CallState} :
          /\ ( /\ CommitOnStaged(st)
               /\ index.conflicts = {}
               /\ index.entries = EntryHeadTree )
             => /\ LastRet(proc').code = GIT_EAPPLIED
                /\ CommitChangedNothing
          /\ ( /\ RetAtCall = AppliedRet
               /\ NextStep
               /\ st.msgnum < st.end_
               /\ faults' = faults )
             => /\ files'["msgnum"] = OneLine(IntFmt(st.msgnum + 1))
                /\ files'["current"] = files[CmtFile(st.msgnum + 1)]
                /\ RewrittenLines(files') = RewrittenLines(files)
                /\ ( /\ LastRet(proc').op = "next"
                     /\ workdir = index.entries
                     /\ Undisturbed )
                     => /\ LastRet(proc').code = GIT_OK
                        /\ index' = [entries |-> NextMerged(st.msgnum + 1).entries,
                                     conflicts |->
                                        NextMerged(st.msgnum + 1).conflicts]
      ]_vars
C12_Witness ==
    /\ LastRet(proc) = [op |-> "next", code |-> GIT_OK, msg |-> ""]
    /\ hist.initOk /\ hist.applied
    /\ faults = 0 /\ edits = 0
    /\ RebaseState.msgnum = 2
    /\ RebaseState.current = PlanPick(files, 2)
    /\ RewrittenLines(files) = << >>
    /\ index.entries # HeadTree

\* every commit of the left column of rewritten that carries a note in nt
\* has its right-column commit carry a note with the same message
NotesMirror(fs, nt) ==
    \A i \in 1..Len(RewrittenLines(fs)) :
        OldColumn(fs)[i] \in DOMAIN nt
           => /\ NewColumn(fs)[i] \in DOMAIN nt
              /\ nt[NewColumn(fs)[i]] = nt[OldColumn(fs)[i]]
\* the step is a git_rebase_finish called with rewrite_notes_ref set
FinishWithNotes == /\ LastRet(proc').op = "finish"
                   /\ proc'[MainProc].rewrite_notes_ref # NoRef

\* C13: after a successful finish with rewrite_notes_ref set, for every line
\* (old, new) of rewritten and every note on old there is a note with the
\* same message on new, and the notes that were there are kept; when no old
\* commit of a well-formed rewritten carries a note, the copy is skipped
\* silently: finish, its branch update not failing, succeeds and leaves the
\* notes as they were.
C13_NotesMirror ==
    [][ \A st \in {CallState} : \A e \in {AtCall} :
          /\ ( FinishWithNotes /\ LastRet(proc').code = GIT_OK )
             => /\ NotesMirror(files, notes')
                /\ \A o \in DOMAIN e.notes :
                      o \in DOMAIN notes' /\ notes'[o] = e.notes[o]
          /\ ( /\ FinishWithNotes
               /\ st.error = GIT_OK
               /\ st.orig_head_name # NoRef
               /\ e.refs[st.orig_head_name] = st.orig_head_id
               /\ Undisturbed
               /\ faults' = faults
               /\ Exists("rewritten")
               /\ RewrittenWellFormed(files)
               /\ \A i \in 1..Len(RewrittenLines(files)) :
                     OldColumn(files)[i] \notin DOMAIN e.notes )
             => /\ LastRet(proc').code = GIT_OK
                /\ notes' = e.notes ]_vars
C13_Witness ==
    /\ LastRet(proc) = [op |-> "finish", code |-> GIT_OK, msg |-> ""]
    /\ proc[MainProc].rewrite_notes_ref = NOTES_REF
    /\ \E new \in DOMAIN notes :
          /\ new > NOrig
          /\ notes[new] = notes[OidX]
          /\ CommitLookup(odb, new).msg = CommitLookup(odb, OidX).msg
    /\ ~mergeDir

\* the positions of git_rebase between its first file write (head-name) and
\* its last (onto_name)
BetweenInitWrites == {"onto", "orig-head", "quiet", "walk", "onto_name"}

\* the positions of git_rebase after its last file write
AfterInitWrites == {"head_create", "checkout"}

\* C14 as stated: when git_rebase, git_rebase_next or git_rebase_commit is
\* killed between two of its consecutive writes of files of the state
\* directory, the state left on disk is loaded without error by
\* rebase_state.  (git_rebase_commit writes one file only, so it has no such
\* point.)
C14_InterruptedStateLoads ==
    [][ ( /\ LastRet(proc').code = "KILLED"
          /\ \/ /\ LastRet(proc').op = "init"
                /\ proc[MainProc].pc \in BetweenInitWrites
             \/ /\ LastRet(proc').op = "next"
                /\ LastRet(proc').msg = "setupfile" )
        => RebaseState'.error = GIT_OK ]_vars

\* C14, amended: a git_rebase_next killed between its two writes leaves a
\* state that loads, with the new step number and the staged pick of before;
\* a git_rebase killed between two of its writes leaves a directory the
\* loader rejects with GIT_ENOTFOUND, never a plan cut short, and one killed
\* after its last write leaves a state that loads with the whole plan.
C14_InterruptedState ==
    [][ LastRet(proc').code = "KILLED" => \A st \in {RebaseState} :
            /\ ( LastRet(proc').op = "next" /\ LastRet(proc').msg = "setupfile" )
               => /\ RebaseState'.error = GIT_OK
                  /\ RebaseState'.msgnum = st.msgnum + 1
                  /\ RebaseState'.current = st.current
                  /\ RebaseState'.end_ = st.end_
            /\ ( /\ LastRet(proc').op = "init"
                 /\ proc[MainProc].pc \in BetweenInitWrites )
               => /\ mergeDir'
                  /\ RebaseState'.error = GIT_ENOTFOUND
            /\ ( /\ LastRet(proc').op = "init"
                 /\ proc[MainProc].pc \in AfterInitWrites
                 /\ mergeDir )
               => /\ RebaseState'.error = GIT_OK
                  /\ RebaseState'.end_ = proc[MainProc].cnt
                  /\ \A n \in 1..proc[MainProc].cnt : Exists(CmtFile(n))' ]_vars
C14_Witness ==
    /\ LastRet(proc) = [op |-> "init", code |-> "KILLED", msg |-> ""]
    /\ mergeDir
    /\ Exists("head-name") /\ Exists("onto") /\ Exists("orig-head")
    /\ Exists(CmtFile(1))
    /\ ~Exists("end")
    /\ RebaseState.error = GIT_ENOTFOUND

\* what rebase_state loads before a step, given what it loads after it: the
\* loader reads the two directories, their files and the object database
LoaderInputs == << mergeDir, files, applyDir, applyFiles, odb >>
LoadedBefore(after) == IF LoaderInputs' = LoaderInputs THEN after ELSE RebaseState

\* C15: in a rebase git_rebase started, after every call, successful or
\* failing, the step counter the loader reads from msgnum is between 0 and
\* end; a git_rebase_next called when it equals end answers GIT_ITEROVER and
\* rewrites no file, so the counter does not advance.
C15_StepWithinPlan ==
    [][ hist.initOk /\ hist'.initOk =>
          \A after \in {RebaseState'} : \A st \in {LoadedBefore(after)} :
             /\ after.error = GIT_OK
                  => /\ 0 <= after.msgnum
                     /\ after.msgnum <= after.end_
                     /\ after.end_ = PlanEnd(files)
                     /\ after.msgnum >= st.msgnum
             /\ ( /\ NextStep
                  /\ proc[MainProc].pc = "idle"
                  /\ st.error = GIT_OK
                  /\ st.msgnum = st.end_ )
                => /\ LastRet(proc').code = GIT_ITEROVER
                   /\ UNCHANGED files
                   /\ after.msgnum = st.msgnum ]_vars
C15_Witness ==
    /\ LastRet(proc) = [op |-> "next", code |-> GIT_ITEROVER, msg |-> ""]
    /\ hist.initOk
    /\ RebaseState.error = GIT_OK
    /\ RebaseState.msgnum = RebaseState.end_
    /\ RebaseState.end_ = 2
    /\ Len(RewrittenLines(files)) = 2

\* the pick numbered msgnum has been staged and no line of rewritten records
\* a commit made for it
StagedNotCommitted(st) ==
    /\ st.msgnum >= 1
    /\ Exists(CmtFile(st.msgnum))
    /\ \A i \in 1..Len(RewrittenLines(files)) :
          OldColumn(files)[i] # PlanPick(files, st.msgnum)

\* C16: in a rebase git_rebase started and in which no call was cut short,
\* the loaded state has 'current' set exactly when git_rebase_next has
\* staged a pick that has not been committed yet; in particular 'current' is
\* not set once the staged pick has been committed.
C16_CurrentIffStaged ==
    ( hist.initOk /\ faults = 0 /\ RebaseState.error = GIT_OK )
       => ( RebaseState.current # NoOid <=> StagedNotCommitted(RebaseState) )

\* the files of the state directory that git_rebase writes and that describe
\* the rebase: onto, orig-head, head-name, end and the cmt.<i>
PlanFiles(fs) ==
    { n \in DOMAIN fs : \/ n \in {"onto", "orig-head", "head-name", "end"}
                        \/ \E i \in PlanNumbers : n = CmtFile(i) }

\* C17: in a rebase git_rebase started, no git_rebase_next and no
\* git_rebase_commit, successful, failing or killed, creates, removes or
\* changes one of the files onto, orig-head, head-name, end and cmt.<i>, so
\* a load after the call yields the onto_id, orig_head_id and end of the
\* load before it.
C17_PlanFilesImmutable ==
    [][ ( hist.initOk /\ ( NextStep \/ CommitStep ) )
        => \A st \in {RebaseState} :
             /\ PlanFiles(files') = PlanFiles(files)
             /\ \A n \in PlanFiles(files) : files'[n] = files[n]
             /\ mergeDir'
             /\ st.error = GIT_OK
                  => \A after \in {RebaseState'} :
                        /\ after.error = GIT_OK
                        /\ after.onto_id = st.onto_id
                        /\ after.orig_head_id = st.orig_head_id
                        /\ after.orig_head_name = st.orig_head_name
                        /\ after.end_ = st.end_ ]_vars
C17_Witness ==
    /\ LastRet(proc) = [op |-> "commit", code |-> GIT_OK, msg |-> ""]
    /\ hist.initOk
    /\ Len(RewrittenLines(files)) = 2
    /\ RebaseState.msgnum = 2
    /\ RebaseState.onto_id = OidB
    /\ RebaseState.orig_head_id = OidY
    /\ RebaseState.end_ = 2
    /\ { PlanPick(files, n) : n \in 1..2 } = {OidX, OidY}

\* the content a file of the state directory has, << >> when it is absent
FileOf(fs, name) == IF name \in DOMAIN fs THEN fs[name] ELSE << >>

\* C18: whatever point a git_rebase_next stops at and whatever another
\* writer does meanwhile, 'current' has changed only if msgnum holds the new
\* step number, and index or working directory have changed only if msgnum
\* holds the new step number and current the pick of that number; whatever point a git_rebase_commit stops at and
\* whatever another writer does meanwhile, a reference moves only to a
\* commit that is stored, with the commit HEAD resolved to as parent, and
\* rewritten grows only after that update, by one line naming that commit;
\* a commit that is cut short before the update leaves references and files
\* as they were.
C18_WriteOrder ==
    [][ /\ NextStep => \A st \in {CallState} :
             st.error = GIT_OK
             => /\ FileOf(files', "current") # FileOf(files, "current")
                   => FileOf(files', "msgnum") = OneLine(IntFmt(st.msgnum + 1))
                /\ ( index' # index \/ workdir' # workdir )
                   => /\ FileOf(files', "msgnum") = OneLine(IntFmt(st.msgnum + 1))
                      /\ FileOf(files', "current") = FileOf(files, CmtFile(st.msgnum + 1))
                /\ FileOf(files', "msgnum") = FileOf(files, "msgnum")
                   => files' = files
        /\ CommitStep => \A st \in {CallState} :
             st.error = GIT_OK
             => /\ ( head' # head \/ refs' # refs )
                   => \E new \in AllOids(odb) \cup AllOids(odb') :
                         /\ ResolveHead(head', refs') = new
                         /\ CommitLookup(odb', new).parents = << EntryHeadOid >>
                         /\ proc[MainProc].pc = "commit_update"
                               => new = proc[MainProc].commit_id /\ odb' = odb
                         /\ proc'[MainProc].pc = "commit_rewritten"
                               => files' = files
                /\ files' # files
                   => \E new \in AllOids(odb') :
                         /\ RewrittenLines(files')
                              = Append(RewrittenLines(files),
                                       << OidFmt(st.current), OidFmt(new) >>)
                         /\ \A n \in DOMAIN files : files'[n] = files[n] \/ n = "rewritten"
                         /\ CommitLookup(odb', new).parents = << EntryHeadOid >>
                         /\ IF proc[MainProc].pc = "idle"
                            THEN ResolveHead(head', refs') = new
                            ELSE /\ proc[MainProc].pc = "commit_rewritten"
                                 /\ new = proc[MainProc].commit_id
                                 /\ UNCHANGED << head, refs, odb >>
                /\ proc'[MainProc].pc = "commit_rewritten"
                   => /\ proc[MainProc].pc = "commit_update"
                      /\ ResolveHead(head', refs') = proc[MainProc].commit_id
                /\ LastRet(proc').msg \in {"commit_create", "update_for_commit"}
                   => UNCHANGED << head, refs, files >> ]_vars
C18_Witness ==
    /\ LastRet(proc) = [op |-> "commit", code |-> "KILLED",
                        msg |-> "update_for_commit"]
    /\ hist.initOk
    /\ RebaseState.error = GIT_OK
    /\ Len(odb) = 1
    /\ odb[1] = CommitRecord(HeadOid, index.entries, RebaseState.current)
    /\ ~Exists("rewritten")

\* a line of rewritten as rebase_copy_notes accepts it
LineWellFormed(ln) ==
    /\ Len(ln) = 2
    /\ Len(ln[1]) = HEXSZ /\ Len(ln[2]) = HEXSZ
    /\ IsHex(ln[1]) /\ IsHex(ln[2])
\* the numbers of the malformed lines, and whether the lines before line n
\* are copied without an error: none has a note to copy onto a commit that
\* carries a note already
MalformedLines(fs) ==
    { i \in 1..Len(RewrittenLines(fs)) : ~LineWellFormed(RewrittenLines(fs)[i]) }
CopiedCleanlyBefore(fs, n) ==
    \A i \in 1..(n - 1) :
        OidFromStr(RewrittenLines(fs)[i][1]) \in DOMAIN notes
           => OidFromStr(RewrittenLines(fs)[i][2]) \notin DOMAIN notes

\* C19: a finish with rewrite_notes_ref set, on a loadable state whose branch
\* is still at orig_head_id and whose rewritten has its first malformed line
\* at line N, the lines before it being copied without error, fails with
\* GIT_ERROR and the message "Invalid rewritten file at line N", N counted
\* from 1, and leaves the state directory and its files in place.
C19_CorruptLineReported ==
    [][ \A st \in {CallState} : \A n \in MalformedLines(files) :
          ( /\ FinishWithNotes
            /\ st.error = GIT_OK
            /\ st.orig_head_name # NoRef
            /\ AtCall.refs[st.orig_head_name] = st.orig_head_id
            /\ Undisturbed
            /\ faults' = faults
            /\ \A i \in MalformedLines(files) : n <= i
            /\ CopiedCleanlyBefore(files, n) )
          => /\ LastRet(proc').code = GIT_ERROR
             /\ LastRet(proc').msg = InvalidRewrittenMsg(n)
             /\ mergeDir'
             /\ files' = files ]_vars
C19_Witness ==
    /\ LastRet(proc).op = "finish"
    /\ LastRet(proc).code = GIT_ERROR
    /\ LastRet(proc).msg = "Invalid rewritten file at line 2"
    /\ proc[MainProc].rewrite_notes_ref = NOTES_REF
    /\ mergeDir
    /\ MalformedLines(files) = {2}
    /\ Len(RewrittenLines(files)[2]) = 3
    /\ RewrittenLines(files)[2][3] = NoNewline

\* C20: when a git_rebase finds, at its p_mkdir, the state directory another
\* git_rebase has created, and so fails without any other failure, the
\* directory and its files are after its return what they were before.
C20_FailedInitKeepsOtherDir ==
    [][ \A q \in Procs :
          ( /\ proc[q].pc = "mkdir"
            /\ mergeDir
            /\ faults' = 0
            /\ proc'[q].ret.op = "init"
            /\ proc'[q].ret.code = GIT_ERROR )
          => /\ mergeDir'
             /\ files' = files ]_vars

\* the step is a git_rebase_finish that returned an error code
FinishFailed == /\ LastRet(proc').op = "finish"
                /\ LastRet(proc').code \notin ({GIT_OK} \cup NullNameOutcomes)

\* C21: when finish, called on the state of a rebase whose git_rebase
\* succeeded, returns an error (the branch no longer at orig_head_id, the
\* update of HEAD failing, a note that cannot be copied, a missing or
\* corrupt rewritten file), no other writer acting meanwhile, the original
\* branch ref and HEAD are after the call what they were before it.
C21_FailedFinishKeepsRefs ==
    [][ ( hist.initOk /\ FinishFailed /\ Undisturbed )
        => /\ refs' = AtCall.refs
           /\ head' = AtCall.head ]_vars

\* C22: in the state directory of a rebase whose git_rebase succeeded,
\* whenever the files msgnum and current both exist, the OID in current is
\* the OID in cmt.<msgnum>.
C22_CurrentIsPickOfMsgnum ==
    ( /\ hist.initOk
      /\ mergeDir
      /\ Exists("msgnum") /\ IsDec(Trimmed(FileOf(files, "msgnum")))
      /\ Exists("current") )
    => /\ Exists(CmtFile(Strtol(Trimmed(files["msgnum"]))))
       /\ Trimmed(files["current"])
             = Trimmed(FileOf(files, CmtFile(Strtol(Trimmed(files["msgnum"])))))

\* the branch being rebased, if the loaded state names one, is where
\* orig-head says it was when the rebase started
BranchAtOrigHead(st, rf) ==
    /\ st.error = GIT_OK
    /\ st.orig_head_name # NoRef => rf[st.orig_head_name] = st.orig_head_id

\* C23: a git_rebase that succeeds, no other writer having moved a ref,
\* leaves HEAD a direct reference to onto and every branch where it was, the
\* original branch at orig_head_id; and every next and commit on a state in
\* which HEAD is direct and the original branch at orig_head_id (no finish
\* or abort has touched them) leaves HEAD direct and every branch where it
\* was: only HEAD moves.
C23_OnlyHeadMoves ==
    [][ /\ ( /\ LastRet(proc').op = "init"
             /\ LastRet(proc').code = GIT_OK
             /\ hist'.initOk
             /\ edits' = 0 )
           => \A after \in {RebaseState'} :
                 /\ ~head'.sym
                 /\ head'.oid = after.onto_id
                 /\ refs' = refs
                 /\ BranchAtOrigHead(after, refs')
        /\ ( /\ hist.initOk
             /\ LastRet(proc').op \in {"next", "commit"}
             /\ ~head.sym
             /\ BranchAtOrigHead(RebaseState, refs) )
           => \A after \in {RebaseState'} :
                 /\ ~head'.sym
                 /\ refs' = refs
                 /\ BranchAtOrigHead(after, refs') ]_vars
C23_Witness ==
    /\ hist.initOk
    /\ LastRet(proc) = [op |-> "commit", code |-> GIT_OK, msg |-> ""]
    /\ ~head.sym
    /\ head.oid > NOrig
    /\ RebaseState.orig_head_name = TOPIC
    /\ refs[TOPIC] = RebaseState.orig_head_id
    /\ edits = 1

\* C24: a finish with rewrite_notes_ref set, on the loadable state of a
\* rebase that has no rewritten file (no pick was committed) and whose
\* branch is still at orig_head_id, nothing else failing, returns success
\* and removes the state directory.
C24_FinishWithoutRewritten ==
    [][ \A st \in {CallState} :
          ( /\ hist.initOk
            /\ FinishWithNotes
            /\ st.error = GIT_OK
            /\ st.orig_head_name # NoRef
            /\ AtCall.refs[st.orig_head_name] = st.orig_head_id
            /\ Undisturbed
            /\ ~Exists("rewritten")
            /\ faults' = faults )
          => /\ LastRet(proc').code = GIT_OK
             /\ ~mergeDir' ]_vars

====
